---- MODULE Spec2Model ----
(***************************************************************************)
(* Model of the LightBase component base class (src/LightBase_1_0_1.js)    *)
(* and of the parts of the L runtime it calls (src/unnamed/part_000):      *)
(* the global instance registry, the constructor, the resource tracking    *)
(* methods and the cascading destruct().                                   *)
(*                                                                         *)
(* The DOM is a forest of NumElems elements below document.body.  Every    *)
(* element has a unique id attribute and may carry the data-light-name     *)
(* attribute.  A call of a method is one action: the whole call, with the  *)
(* calls it makes (child destructors, disposers, abort handlers), is       *)
(* evaluated by recursive operators over a record of the program state.    *)
(***************************************************************************)
EXTENDS Integers, Sequences, FiniteSets, TLC

\* ------------------------------------------------------------------ bounds
NumElems == 3       \* elements in the document
MaxInst == 3        \* LightBase objects ever constructed
MaxObj == 4         \* objects ever created: LightBase objects and their resources
MaxPremarked == 1   \* elements that carry data-light-name in the served HTML
MaxRel == 1         \* direct release calls (clearT, returned disposer, ...) per resource
MaxInstRes == 2     \* LightBase objects in the resource specification
MaxRes == 2         \* resources, where the specification bounds them
MaxRecs == 2        \* records of subscriptions L holds at a time
MaxTips == 2        \* LightTip objects made by LightTip.attach
MaxListeners == 8   \* registrations with the host beyond which no tip is shown
MaxDrags == 3       \* drags of a scrollbar grip started and not finished

\* ------------------------------------------------------------- the document
Elems == 1..NumElems
Body == 0           \* document.body
NoElem == -1        \* null: no parentElement / getElementById found nothing
Document == -2      \* document, as the target of a listener
Window == -3        \* window, as the target of a listener
NoMarker == "null"  \* getAttribute('data-light-name') of an element without it

\* Component classes.  The registry key is the class name (getClassName).
Kinds == {"A", "B"}
\* Classes whose destruct() override runs LightBase.destruct() and then fails
\* in the cleanup of its own: the error the cascade's try/catch is there for.
ThrowingKinds == {"B"}

\* The id attribute of element e, as its characters.
ElemId(e) == <<"x", <<"1", "2", "3", "4", "5", "6", "7", "8", "9">>[e]>>
\* The ids a caller passes to the constructor: the ids of the elements, the
\* empty string, an id with '#', and a well-formed id no element has.
IdInputs == {ElemId(e) : e \in Elems} \cup {<<>>, <<"#", "x", "1">>, <<"x", "0">>}

VARIABLES
    parent,   \* parent[e]: parentElement of e (Body, an element, or NoElem)
    marker,   \* marker[e]: the data-light-name attribute of e
    REG,      \* t_lightinstances: class name -> (id -> instance)
    insts,    \* the LightBase objects constructed so far, in order of construction
    res,      \* the resources created so far, in order of creation
    trace,    \* history: what the last call did, step by step
    last,     \* history: the last call and the error it threw
    errors,   \* L.errors and L._errorsByNs: the message templates
    tip,      \* the LightTip of one anchor: its options and what it rendered
    io,       \* history: the arguments and the outcome of the last call of L
    host,     \* the listeners and observers registered with the host
    events,   \* _events of L: the records of the subscriptions made with L.on
    tips,     \* the LightTip objects made by LightTip.attach, in order of creation
    sb        \* a LightScrollbar

page == <<host, events, tips, sb>>
vars == <<parent, marker, REG, insts, res, trace, last, errors, tip, io, page>>

\* The program state as one record, for the operators that evaluate a call.
\* beh is the behaviour of the user callbacks during the call (see RunCb).
St == [parent |-> parent, marker |-> marker, REG |-> REG, insts |-> insts,
       res |-> res, trace |-> trace, beh |-> <<>>]

\* One step of a call: what was done (ev), by the destruct() of which instance
\* (i), to which resource or instance (h); d is the depth the cascade computed
\* for the element of the instance it calls.
Ev(e, i, h, d) == [ev |-> e, i |-> i, h |-> h, d |-> d]
Log(S, e, i, h) == [S EXCEPT !.trace = Append(@, Ev(e, i, h, 0))]
LogCall(S, i, j, d) == [S EXCEPT !.trace = Append(@, Ev("call", i, j, d))]

Range(f) == {f[x] : x \in DOMAIN f}
RECURSIVE SeqOfSet(_)
\* The elements of a set of integers in increasing order.
SeqOfSet(T) ==
    IF T = {} THEN <<>>
    ELSE LET m == CHOOSE x \in T : \A y \in T : x <= y
         IN <<m>> \o SeqOfSet(T \ {m})

\* ---------------------------------------------------- the library at load
\* A string of the library (a code, a key, a namespace, a template, a
\* message, a placement) is the sequence of its characters.
\* L.errors as part_000 sets it, and L._errorsByNs after LightBase registered
\* its messages (the texts of ALREADY_DESTRUCTED and DESTRUCT_IN_PROGRESS are
\* those of the global table).
ErrorsAtLoad ==
    LET
        s_E_INVALID_ID ==
            <<"E", "_", "I", "N", "V", "A", "L", "I", "D", "_", "I", "D">>
        t_E_INVALID_ID ==
            <<"I", "n", "v", "a", "l", "i", "d", " ", "i", "d", " ", "\"", "{", "{", "i", "d", "}",
              "}", "\"">>
        s_E_NO_ELEMENT ==
            <<"E", "_", "N", "O", "_", "E", "L", "E", "M", "E", "N", "T">>
        t_E_NO_ELEMENT ==
            <<"N", "o", " ", "e", "l", "e", "m", "e", "n", "t", " ", "f", "o", "u", "n", "d", " ",
              "w", "i", "t", "h", " ", "i", "d", " ", "\"", "{", "{", "i", "d", "}", "}", "\"">>
        s_E_INSTANCE_EXISTS ==
            <<"E", "_", "I", "N", "S", "T", "A", "N", "C", "E", "_", "E", "X", "I", "S", "T", "S">>
        t_E_INSTANCE_EXISTS ==
            <<"I", "n", "s", "t", "a", "n", "c", "e", " ", "\"", "{", "{", "c", "l", "s", "}", "}",
              "\"", " ", "f", "o", "r", " ", "#", "{", "{", "i", "d", "}", "}", " ", "a", "l", "r",
              "e", "a", "d", "y", " ", "e", "x", "i", "s", "t", "s">>
        s_E_ALREADY_DESTRUCTED ==
            <<"E", "_", "A", "L", "R", "E", "A", "D", "Y", "_", "D", "E", "S", "T", "R", "U", "C",
              "T", "E", "D">>
        t_E_ALREADY_DESTRUCTED ==
            <<"I", "n", "s", "t", "a", "n", "c", "e", " ", "\"", "{", "{", "c", "l", "s", "}", "}",
              "\"", " ", "f", "o", "r", " ", "#", "{", "{", "i", "d", "}", "}", " ", "a", "l", "r",
              "e", "a", "d", "y", " ", "d", "e", "s", "t", "r", "u", "c", "t", "e", "d">>
        s_E_DESTRUCT_IN_PROGRESS ==
            <<"E", "_", "D", "E", "S", "T", "R", "U", "C", "T", "_", "I", "N", "_", "P", "R", "O",
              "G", "R", "E", "S", "S">>
        t_E_DESTRUCT_IN_PROGRESS ==
            <<"D", "e", "s", "t", "r", "u", "c", "t", "i", "o", "n", " ", "a", "l", "r", "e", "a",
              "d", "y", " ", "i", "n", " ", "p", "r", "o", "g", "r", "e", "s", "s", " ", "f", "o",
              "r", " ", "\"", "{", "{", "c", "l", "s", "}", "}", "\"", " ", "#", "{", "{", "i",
              "d", "}", "}">>
        s_E_NO_ROOT ==
            <<"E", "_", "N", "O", "_", "R", "O", "O", "T">>
        t_E_NO_ROOT ==
            <<"R", "o", "o", "t", " ", "e", "l", "e", "m", "e", "n", "t", " ", "i", "s", " ", "r",
              "e", "q", "u", "i", "r", "e", "d", " ", "f", "o", "r", " ", "\"", "{", "{", "c", "l",
              "s", "}", "}", "\"">>
        s_E_ASSERT_FAILED ==
            <<"E", "_", "A", "S", "S", "E", "R", "T", "_", "F", "A", "I", "L", "E", "D">>
        t_E_ASSERT_FAILED ==
            <<"A", "s", "s", "e", "r", "t", "i", "o", "n", " ", "f", "a", "i", "l", "e", "d", ":",
              " ", "{", "{", "m", "e", "s", "s", "a", "g", "e", "}", "}">>
        s_LightBase ==
            <<"L", "i", "g", "h", "t", "B", "a", "s", "e">>
        s_CONFLICT_OWNER ==
            <<"C", "O", "N", "F", "L", "I", "C", "T", "_", "O", "W", "N", "E", "R">>
        t_CONFLICT_OWNER ==
            <<"E", "l", "e", "m", "e", "n", "t", " ", "#", "{", "{", "i", "d", "}", "}", " ", "i",
              "s", " ", "a", "l", "r", "e", "a", "d", "y", " ", "o", "w", "n", "e", "d", " ", "b",
              "y", " ", "\"", "{", "{", "o", "w", "n", "e", "r", "}", "}", "\"">>
        s_INVALID_CONSTRUCTOR_ID ==
            <<"I", "N", "V", "A", "L", "I", "D", "_", "C", "O", "N", "S", "T", "R", "U", "C", "T",
              "O", "R", "_", "I", "D">>
        t_INVALID_CONSTRUCTOR_ID ==
            <<"C", "o", "n", "s", "t", "r", "u", "c", "t", "o", "r", " ", "r", "e", "q", "u", "i",
              "r", "e", "s", " ", "a", " ", "n", "o", "n", "-", "e", "m", "p", "t", "y", " ", "s",
              "t", "r", "i", "n", "g", " ", "i", "d", " ", "w", "i", "t", "h", "o", "u", "t", " ",
              "\"", "#", "\"">>
        s_ALREADY_DESTRUCTED ==
            <<"A", "L", "R", "E", "A", "D", "Y", "_", "D", "E", "S", "T", "R", "U", "C", "T", "E",
              "D">>
        s_DESTRUCT_IN_PROGRESS ==
            <<"D", "E", "S", "T", "R", "U", "C", "T", "_", "I", "N", "_", "P", "R", "O", "G", "R",
              "E", "S", "S">>
    IN
        [global |-> (s_E_INVALID_ID :> t_E_INVALID_ID)
                    @@ (s_E_NO_ELEMENT :> t_E_NO_ELEMENT)
                    @@ (s_E_INSTANCE_EXISTS :> t_E_INSTANCE_EXISTS)
                    @@ (s_E_ALREADY_DESTRUCTED :> t_E_ALREADY_DESTRUCTED)
                    @@ (s_E_DESTRUCT_IN_PROGRESS :> t_E_DESTRUCT_IN_PROGRESS)
                    @@ (s_E_NO_ROOT :> t_E_NO_ROOT)
                    @@ (s_E_ASSERT_FAILED :> t_E_ASSERT_FAILED),
         byNs |-> (s_LightBase :> ((s_CONFLICT_OWNER :> t_CONFLICT_OWNER)
                                   @@ (s_INVALID_CONSTRUCTOR_ID :> t_INVALID_CONSTRUCTOR_ID)
                                   @@ (s_ALREADY_DESTRUCTED :> t_E_ALREADY_DESTRUCTED)
                                   @@ (s_DESTRUCT_IN_PROGRESS :> t_E_DESTRUCT_IN_PROGRESS)))]

\* The library as the scripts leave it at load: no LightTip attached, no
\* call of L made.
PageAtLoad ==
    /\ host = {}
    /\ events = <<>>
    /\ tips = <<>>
    /\ sb = [made |-> FALSE, host |-> NoElem, axis |-> "xy", hasX |-> FALSE, hasY |-> FALSE,
             cleanup |-> <<>>, docDragHandlers |-> 0, dragging |-> ""]
LibAtLoad ==
    errors = ErrorsAtLoad /\ tip = [open |-> FALSE] /\ io = [op |-> "none"] /\ PageAtLoad

\* ------------------------------------------------------------- DOM queries
RECURSIVE IsBelow(_, _, _)
\* el is a proper descendant of root.
IsBelow(par, el, root) ==
    /\ el \in Elems
    /\ par[el] # NoElem
    /\ (par[el] = root \/ IsBelow(par, par[el], root))

InDocument(par, el) == IsBelow(par, el, Body)

\* document.getElementById(id): the element of the document whose id is id.
GetElementById(S, id) ==
    LET hit == {e \in Elems : ElemId(e) = id /\ InDocument(S.parent, e)}
    IN IF hit = {} THEN NoElem ELSE CHOOSE e \in hit : TRUE

RECURSIVE PreOrderOf(_, _)
RECURSIVE PreOrder(_, _)
\* The proper descendants of root in document order (siblings by index).
PreOrder(par, root) ==
    PreOrderOf(par, SeqOfSet({e \in Elems : par[e] = root}))
PreOrderOf(par, kids) ==
    IF kids = <<>> THEN <<>>
    ELSE <<Head(kids)>> \o PreOrder(par, Head(kids)) \o PreOrderOf(par, Tail(kids))

\* The mutant of FindMarked: the marked children of root, not its descendants.
FindMarkedChildren(S, root) ==
    SelectSeq(SeqOfSet({e \in Elems : S.parent[e] = root}),
              LAMBDA e : S.marker[e] # NoMarker)

\* LSet.find('[data-light-name]') on root: querySelectorAll, in document order.
FindMarked(S, root) ==
    SelectSeq(PreOrder(S.parent, root), LAMBDA e : S.marker[e] # NoMarker)

RECURSIVE Depth(_, _, _)
\* depth(el) of _collectOwnedDescendantsDeepFirst: steps from el up to root.
Depth(par, root, el) ==
    IF el = NoElem \/ el = Body \/ el = root THEN 0
    ELSE 1 + Depth(par, root, par[el])

RECURSIVE SortByDepthFrom(_, _, _, _)
\* nodes.sort((a, b) => depth(b) - depth(a)): a stable sort, deepest first.
SortByDepthFrom(par, root, nodes, d) ==
    IF d = 0 THEN <<>>
    ELSE SelectSeq(nodes, LAMBDA e : Depth(par, root, e) = d)
         \o SortByDepthFrom(par, root, nodes, d - 1)

\* The mutant of SortDeepFirst: document order, not sorted.
SortDeepFirstUnsorted(par, root, nodes) == nodes

SortDeepFirst(par, root, nodes) == SortByDepthFrom(par, root, nodes, NumElems)

CollectOwnedDescendantsDeepFirst(S, root) ==
    SortDeepFirst(S.parent, root, FindMarked(S, root))

\* L.dom.clear(el): remove every child of el (each leaves with its subtree).
RECURSIVE DetachFrom(_, _, _)
DetachFrom(par, el, e) ==
    IF e > NumElems THEN par
    ELSE DetachFrom(IF par[e] = el THEN [par EXCEPT ![e] = NoElem] ELSE par, el, e + 1)

DomClear(par, el) == DetachFrom(par, el, 1)

\* ---------------------------------------------------------------- registry
\* ensureClassBucket(className)
EnsureClassBucket(R, cls) ==
    IF cls \in DOMAIN R THEN R
    ELSE R @@ (cls :> <<>>)

\* REG[cname] && REG[cname][cid]; 0 stands for undefined.
Lookup(R, cls, id) ==
    IF cls \in DOMAIN R /\ id \in DOMAIN R[cls] THEN R[cls][id] ELSE 0

\* bucket[id] = inst
RegPut(R, cls, id, i) == [R EXCEPT ![cls] = (id :> i) @@ @]

RECURSIVE Without(_, _, _)
\* The object f without its property id (keys is what is left to copy).
Without(f, id, keys) ==
    IF keys = {} THEN <<>>
    ELSE LET k == CHOOSE x \in keys : TRUE
         IN IF k = id THEN Without(f, id, keys \ {k})
            ELSE (k :> f[k]) @@ Without(f, id, keys \ {k})

\* delete bucket[id]
RegDelete(R, cls, id) == [R EXCEPT ![cls] = Without(@, id, DOMAIN @)]

\* Every (class, id, instance) entry of the registry.
RegEntries(R) ==
    UNION {{<<k, id, R[k][id]>> : id \in DOMAIN R[k]} : k \in DOMAIN R}

\* ------------------------------------------------- instances and resources
\* What a user callback (a disposer, an abort handler) does in one run:
\*   noop                 nothing
\*   throw                throws
\*   destruct, j          calls destruct() of instance j and lets its error pass
\*   setT, j              calls setT() of instance j
\* The callbacks are the callers' code: what each does is an input of the
\* call that runs it.
Cb(op, j) == [op |-> op, j |-> j]
NoCb == Cb("noop", 0)

\* The arguments of a subscription; NoSub for a resource that is no listener.
Sub(target, type, selector, handler) ==
    [target |-> target, type |-> type, selector |-> selector, handler |-> handler]
NoSub == Sub("", "", "", "")
NoSelector == ""   \* no selector argument: a direct subscription

\* A resource: a listener record, a disposer ("disposer": a function of the
\* caller; "observer": the disposer L.observe.* returned), a timer id
\* ("timeout", "interval", "raf"), an AbortController ("abort").
\*   live   subscribed (listener), connected (observer), pending (timer),
\*          not yet aborted (AbortController); FALSE for a plain disposer
\*   rel    history: how often it was released (L.off with its record,
\*          clearTimeout/clearInterval/cancelAnimationFrame with its id,
\*          a call of the disposer, abort())
\*   fired  history: how often its timer callback ran
\*   late   history: it was acquired when its owner was not Active
NewRes(kind, owner, sub, live, late) ==
    [kind |-> kind, owner |-> owner, sub |-> sub, live |-> live,
     rel |-> 0, fired |-> 0, late |-> late]

\* The lifecycle state of an instance record.
IsActive(I) == ~I.isDestructing /\ ~I.isDestructed

\* The object the constructor leaves behind (lines 64-82).
NewInst(id, el, cls) ==
    [id |-> id, root |-> el, className |-> cls,
     isDestructing |-> FALSE, isDestructed |-> FALSE,
     listeners |-> <<>>, disposers |-> <<>>,
     timeouts |-> <<>>, intervals |-> <<>>, rafs |-> <<>>, aborts |-> <<>>]

\* Set.add / Set.delete on a tracking set, kept in insertion order.
SetAdd(q, h) == IF h \in Range(q) THEN q ELSE Append(q, h)
SetDelete(q, h) == SelectSeq(q, LAMBDA x : x # h)

\* --------------------------------------------------------------- L.assert
NoErr == "ok"
\* L.assert(cond, code, data): throws an Error whose code is `code`.
LAssert(cond, code) == IF cond THEN NoErr ELSE code

\* The outcome of a call: the state it leaves and the error it threw.
Out(S, err) == [s |-> S, err |-> err]

\* ------------------------------------------------------------ constructor
CharsInclude(id, c) == \E k \in 1..Len(id) : id[k] = c

\* !!id && typeof id === 'string' && !id.includes('#')
ValidId(id) == id # <<>> /\ ~CharsInclude(id, "#")

\* The mutant of SlotFree: the duplicate check is missing.
SlotFreeAlways(bucket, id) == TRUE

\* !bucket[id]
SlotFree(bucket, id) == id \notin DOMAIN bucket

\* The mutant of OwnerOk: any owner will do.
OwnerOkAlways(owner, cls) == TRUE

\* !owner || owner === cls
OwnerOk(owner, cls) == owner = NoMarker \/ owner = cls

\* The mutant of Constructor: the slot is claimed before the element is looked
\* up and its owner checked.
ConstructorClaimsFirst(S, cls, id) ==
    LET e1 == LAssert(ValidId(id), "LightBase.INVALID_CONSTRUCTOR_ID")
        S1 == [S EXCEPT !.REG = EnsureClassBucket(S.REG, cls)]
        e2 == LAssert(SlotFree(S1.REG[cls], id), "E_INSTANCE_EXISTS")
        i  == Len(S1.insts) + 1
        S2 == [S1 EXCEPT !.REG = RegPut(S1.REG, cls, id, i)]
        el == GetElementById(S1, id)
        e3 == LAssert(el # NoElem, "E_NO_ELEMENT")
        e4 == LAssert(OwnerOk(S1.marker[el], cls), "LightBase.CONFLICT_OWNER")
    IN  IF e1 # NoErr THEN Out(S, e1)
        ELSE IF e2 # NoErr THEN Out(S1, e2)
        ELSE IF e3 # NoErr THEN Out(S2, e3)
        ELSE IF e4 # NoErr THEN Out(S2, e4)
        ELSE Out([S2 EXCEPT !.marker[el] = cls,
                            !.insts = Append(@, NewInst(id, el, cls))],
                 NoErr)

\* new Kind(id): the checks in the order of the code, then the effects. The
\* history notes (adopt) that the element already carried the marker.
Constructor(S, cls, id) ==
    LET e1 == LAssert(ValidId(id), "LightBase.INVALID_CONSTRUCTOR_ID")
        S1 == [S EXCEPT !.REG = EnsureClassBucket(S.REG, cls)]
        e2 == LAssert(SlotFree(S1.REG[cls], id), "E_INSTANCE_EXISTS")
        el == GetElementById(S1, id)
        e3 == LAssert(el # NoElem, "E_NO_ELEMENT")
        e4 == LAssert(OwnerOk(S1.marker[el], cls), "LightBase.CONFLICT_OWNER")
        i  == Len(S1.insts) + 1
    IN  IF e1 # NoErr THEN Out(S, e1)
        ELSE IF e2 # NoErr THEN Out(S1, e2)
        ELSE IF e3 # NoErr THEN Out(S1, e3)
        ELSE IF e4 # NoErr THEN Out(S1, e4)
        ELSE Out([S1 EXCEPT !.marker[el] = cls,
                            !.insts = Append(@, NewInst(id, el, cls)),
                            !.REG = RegPut(S1.REG, cls, id, i),
                            !.trace = IF S1.marker[el] = cls
                                      THEN Append(@, Ev("adopt", i, 0, 0)) ELSE @],
                 NoErr)

\* off(root, type, selector, handler): every record under the key whose
\* handler is `handler` is unsubscribed and deleted.
RECURSIVE OffFrom(_, _, _)
OffFrom(rs, sub, h) ==
    IF h > Len(rs) THEN rs
    ELSE OffFrom(IF rs[h].kind = "listener" /\ rs[h].sub = sub
                 THEN [rs EXCEPT ![h].live = FALSE] ELSE rs, sub, h + 1)

LOff(S, sub) == [S EXCEPT !.res = OffFrom(@, sub, 1)]

\* _removeEvent(rec)
RemoveEvent(S, i, h) ==
    Log([LOff(S, S.res[h].sub) EXCEPT !.res[h].rel = @ + 1], "off", i, h)

\* clearTimeout(id) / clearInterval(id) / cancelAnimationFrame(id)
HostCancel(S, i, h) ==
    Log([S EXCEPT !.res[h].live = FALSE, !.res[h].rel = @ + 1], "cancel", i, h)

\* No object is created beyond MaxObj.
HasRoom(S) == Len(S.insts) + Len(S.res) < MaxObj

\* setT(fn, ms) of instance j, for a caller that drops the id.
SetTOn(S, j) ==
    IF ~HasRoom(S) THEN S
    ELSE [S EXCEPT !.res = Append(@, NewRes("timeout", j, NoSub, TRUE,
                                            ~IsActive(S.insts[j]))),
                   !.insts[j].timeouts = SetAdd(@, Len(S.res) + 1)]

\* ----------------------------------------------------------------- destruct
RECURSIVE DestructBase(_, _)
RECURSIVE CallDestruct(_, _)
RECURSIVE Cascade(_, _, _, _)
RECURSIVE RunCb(_, _)
RECURSIVE RunDisposers(_, _, _)
RECURSIVE RunAborts(_, _, _)
RECURSIVE RemoveListeners(_, _, _)
RECURSIVE CancelAll(_, _, _)

\* inst.destruct(): the call is virtual.  A class of ThrowingKinds overrides
\* destruct(), calls LightBase.destruct() and then throws.
CallDestruct(S, j) ==
    LET r == DestructBase(S, j)
    IN IF r.err = NoErr /\ S.insts[j].className \in ThrowingKinds
       THEN Out(r.s, "E_SUBCLASS") ELSE r

\* One run of the callback of resource h: the disposer of an observer
\* disconnects it (ro.disconnect()); a function of the caller does what
\* S.beh says.
RunCb(S, h) ==
    LET cb == IF h \in DOMAIN S.beh THEN S.beh[h] ELSE NoCb
    IN CASE S.res[h].kind = "observer" -> Out([S EXCEPT !.res[h].live = FALSE], NoErr)
         [] OTHER ->
            CASE cb.op = "noop" -> Out(S, NoErr)
              [] cb.op = "throw" -> Out(S, "E_USER")
              [] cb.op = "destruct" -> CallDestruct(Log(S, "cbcall", cb.j, h), cb.j)
              [] cb.op = "setT" -> Out(SetTOn(S, cb.j), NoErr)

\* A call of the disposer h (by destruct() or by its holder).
CallDisposer(S, i, h) ==
    RunCb(Log([S EXCEPT !.res[h].rel = @ + 1], "dispose", i, h), h)

\* ac.abort(): the abort handlers run once, on the first abort, and what they
\* throw does not reach the caller of abort().
CallAbort(S, i, h) ==
    LET S1 == Log([S EXCEPT !.res[h].rel = @ + 1, !.res[h].live = FALSE], "abort", i, h)
    IN IF S.res[h].live THEN RunCb(S1, h).s ELSE S1

\* The mutant of CascadeGuard: every registered descendant is called.
CascadeGuardRegistered(S, j) == j # 0

\* inst && !inst.isDestructing && !inst.isDestructed
CascadeGuard(S, j) ==
    j # 0 /\ ~S.insts[j].isDestructing /\ ~S.insts[j].isDestructed

\* The mutant of CascadeCatch: the child's error leaves the loop.
CascadeCatchRethrows(S, i, j, r) == Out(r.s, r.err)

\* try { inst.destruct(); } catch (e) { L.log.danger('child destruct error', e); }
CascadeCatch(S, i, j, r) ==
    IF r.err = NoErr THEN Out(r.s, NoErr) ELSE Out(Log(r.s, "danger", i, j), NoErr)

\* for (const el of nodes) { ... }: from the k-th node on.
Cascade(S, i, nodes, k) ==
    IF k > Len(nodes) THEN Out(S, NoErr)
    ELSE LET el == nodes[k]
             cname == S.marker[el]
             cid == ElemId(el)
             j == IF cname = NoMarker \/ cid = <<>> THEN 0 ELSE Lookup(S.REG, cname, cid)
         IN IF CascadeGuard(S, j)
            THEN LET d == Depth(S.parent, S.insts[i].root, el)
                     r == CascadeCatch(S, i, j, CallDestruct(LogCall(S, i, j, d), j))
                 IN IF r.err # NoErr THEN r ELSE Cascade(r.s, i, nodes, k + 1)
            ELSE Cascade(S, i, nodes, k + 1)

\* for (const rec of this._listeners) this._removeEvent(rec)
RemoveListeners(S, i, k) ==
    IF k > Len(S.insts[i].listeners) THEN S
    ELSE RemoveListeners(RemoveEvent(S, i, S.insts[i].listeners[k]), i, k + 1)

\* for (const d of this._disposers) { try { d(); } catch(_){} }: the array is
\* read while the loop runs, so a disposer pushed meanwhile runs too.
RunDisposers(S, i, k) ==
    IF k > Len(S.insts[i].disposers) THEN S
    ELSE RunDisposers(CallDisposer(S, i, S.insts[i].disposers[k]).s, i, k + 1)

\* for (const id of Array.from(set)) clearX(id): over the copy q.
CancelAll(S, i, q) ==
    IF q = <<>> THEN S ELSE CancelAll(HostCancel(S, i, Head(q)), i, Tail(q))

\* for (const ac of Array.from(this._aborts)) { try { ac.abort(); } catch(_){} }
RunAborts(S, i, q) ==
    IF q = <<>> THEN S ELSE RunAborts(CallAbort(S, i, Head(q)), i, Tail(q))

\* The mutant of ReleaseSlot: the entry is kept.
ReleaseSlotKeeps(S, i) == S

\* The mutant of ReleaseSlot: the entry is deleted whoever holds it.
ReleaseSlotAlways(S, i) ==
    Log([S EXCEPT !.REG = RegDelete(S.REG, S.insts[i].className, S.insts[i].id)],
        "unreg", i, 0)

\* if (bucket[id] === this) delete bucket[id]
ReleaseSlot(S, i) ==
    LET I == S.insts[i]
    IN IF Lookup(S.REG, I.className, I.id) = i
       THEN Log([S EXCEPT !.REG = RegDelete(S.REG, I.className, I.id)], "unreg", i, 0)
       ELSE S

\* The mutant of RemoveMarker: the attribute stays.
RemoveMarkerKeeps(S, i) == S

\* this.root.removeAttribute('data-light-name')
RemoveMarker(S, i) ==
    Log([S EXCEPT !.marker[S.insts[i].root] = NoMarker], "unmark", i, 0)

\* L.dom.clear(this.root)
ClearRoot(S, i) ==
    Log([S EXCEPT !.parent = DomClear(S.parent, S.insts[i].root)], "clear", i, 0)

\* The mutant of CleanupResources: the disposers run before the listeners are
\* removed.
CleanupResourcesDisposersFirst(S, i) ==
    LET S1 == [RunDisposers(S, i, 1) EXCEPT !.insts[i].disposers = <<>>]
        S2 == [RemoveListeners(S1, i, 1) EXCEPT !.insts[i].listeners = <<>>]
        S3 == [CancelAll(S2, i, S2.insts[i].timeouts) EXCEPT !.insts[i].timeouts = <<>>]
        S4 == [CancelAll(S3, i, S3.insts[i].intervals) EXCEPT !.insts[i].intervals = <<>>]
        S5 == [CancelAll(S4, i, S4.insts[i].rafs) EXCEPT !.insts[i].rafs = <<>>]
        S6 == [RunAborts(S5, i, S5.insts[i].aborts) EXCEPT !.insts[i].aborts = <<>>]
    IN S6

\* Step 2 of destruct(): the resources, in the order of the code.
CleanupResources(S, i) ==
    LET S1 == [RemoveListeners(S, i, 1) EXCEPT !.insts[i].listeners = <<>>]
        S2 == [RunDisposers(S1, i, 1) EXCEPT !.insts[i].disposers = <<>>]
        S3 == [CancelAll(S2, i, S2.insts[i].timeouts) EXCEPT !.insts[i].timeouts = <<>>]
        S4 == [CancelAll(S3, i, S3.insts[i].intervals) EXCEPT !.insts[i].intervals = <<>>]
        S5 == [CancelAll(S4, i, S4.insts[i].rafs) EXCEPT !.insts[i].rafs = <<>>]
        S6 == [RunAborts(S5, i, S5.insts[i].aborts) EXCEPT !.insts[i].aborts = <<>>]
    IN S6

\* The try block of destruct().
DestructBody(S, i) ==
    LET nodes == CollectOwnedDescendantsDeepFirst(S, S.insts[i].root)
        c == Cascade(S, i, nodes, 1)
    IN IF c.err # NoErr THEN c
       ELSE Out(ReleaseSlot(RemoveMarker(ClearRoot(CleanupResources(c.s, i), i), i), i),
                NoErr)

\* The mutant of DestructFinally: the flags are left as the try block left them.
DestructFinallyKeeps(S, i) == S

\* The finally block of destruct().
DestructFinally(S, i) ==
    [S EXCEPT !.insts[i].isDestructing = FALSE, !.insts[i].isDestructed = TRUE]

\* The mutant of GuardDestructed: a second destruct() runs again.
GuardDestructedOff(I) == FALSE

\* if (this.isDestructed)
GuardDestructed(I) == I.isDestructed

\* The mutant of GuardDestructing: a re-entrant destruct() runs.
GuardDestructingOff(I) == FALSE

\* if (this.isDestructing)
GuardDestructing(I) == I.isDestructing

\* LightBase.prototype.destruct
DestructBase(S, i) ==
    IF GuardDestructed(S.insts[i])
    THEN Out(S, LAssert(FALSE, "LightBase.ALREADY_DESTRUCTED"))
    ELSE IF GuardDestructing(S.insts[i])
    THEN Out(S, LAssert(FALSE, "LightBase.DESTRUCT_IN_PROGRESS"))
    ELSE LET S0 == Log([S EXCEPT !.insts[i].isDestructing = TRUE,
                                 !.REG = EnsureClassBucket(S.REG, S.insts[i].className)],
                       "enter", i, 0)
             b == DestructBody(S0, i)
         IN Out(Log(DestructFinally(b.s, i), IF b.err = NoErr THEN "exit" ELSE "abrupt", i, 0),
                b.err)

\* ------------------------------------------------------------------ actions
Call(op, err) == [op |-> op, err |-> err]
NoCall == Call("init", NoErr)

\* The state a call starts from: the history of the previous call is dropped.
Start == [St EXCEPT !.trace = <<>>]
StartWith(beh) == [St EXCEPT !.trace = <<>>, !.beh = beh]

Commit(S, l) ==
    /\ parent' = S.parent
    /\ marker' = S.marker
    /\ REG' = S.REG
    /\ insts' = S.insts
    /\ res' = S.res
    /\ trace' = S.trace
    /\ last' = l
    /\ UNCHANGED <<errors, tip, io, page>>

Insts == 1..Len(insts)
Handles == 1..Len(res)

\* The resources that are functions of the caller, and what they may do in
\* one call: nothing, or call destruct() of an instance (their own, an
\* ancestor's, a sibling's, any other).
CbHandles == {h \in Handles : res[h].kind \in {"disposer", "abort"}}
ReentrantCbs == {NoCb} \cup {Cb("destruct", j) : j \in Insts}
\* The callbacks of the resource specification: no call back into LightBase.
PlainCbs == {NoCb, Cb("throw", 0)}
\* The subscriptions made through addEvent; "missing" is a selector string
\* that document.querySelector does not find.
Targets == {"document", "missing"}
ObserverTypes == {"resize", "intersection", "mutation"}
TimerKinds == {"timeout", "interval", "raf"}

\* new Kind(id)
Construct(cls, id) ==
    LET r == Constructor(Start, cls, id)
    IN /\ r.err = NoErr => (Len(insts) < MaxInst /\ HasRoom(St))
       /\ Commit(r.s, Call("construct", r.err))

\* inst.destruct(), with the callbacks behaving as beh says
Destruct(i, beh) ==
    LET r == CallDestruct(StartWith(beh), i)
    IN Commit(r.s, Call("destruct", r.err))

Late(i) == ~IsActive(insts[i])

\* One more resource: number Len(res) + 1.
Acquire(S, r) == [S EXCEPT !.res = Append(@, r)]

\* inst.addEvent(target, 'click', handler)
AddEvent(i, target, handler) ==
    LET h == Len(res) + 1
        rec == NewRes("listener", i, Sub(target, "click", NoSelector, handler), TRUE, Late(i))
    IN /\ HasRoom(St)
       /\ IF target = "missing"
          THEN Commit(Start, Call("acquire", NoErr))
          ELSE Commit([Acquire(Start, rec) EXCEPT !.insts[i].listeners = Append(@, h)],
                      Call("acquire", NoErr))

\* The function addEvent returned: () => this._removeEvent(rec)
DisposeEvent(h) ==
    /\ res[h].kind = "listener"
    /\ res[h].rel < MaxRel
    /\ Commit(RemoveEvent(Start, res[h].owner, h), Call("release", NoErr))

\* inst.addDisposer(fn)
AddDisposer(i) ==
    LET h == Len(res) + 1
    IN /\ HasRoom(St)
       /\ Commit([Acquire(Start, NewRes("disposer", i, NoSub, FALSE, Late(i)))
                    EXCEPT !.insts[i].disposers = Append(@, h)],
                 Call("acquire", NoErr))

\* inst.observeResize / observeIntersection / observeMutation
Observe(i, otype) ==
    LET h == Len(res) + 1
    IN /\ HasRoom(St)
       /\ Commit([Acquire(Start, NewRes("observer", i, NoSub, TRUE, Late(i)))
                    EXCEPT !.insts[i].disposers = Append(@, h)],
                 Call("acquire", NoErr))

\* A disposer called by the code that holds it.
DisposeDirect(h, beh) ==
    /\ res[h].kind \in {"disposer", "observer"}
    /\ res[h].rel < MaxRel
    /\ LET r == CallDisposer(StartWith(beh), res[h].owner, h)
       IN Commit(r.s, Call("release", r.err))

\* inst.setT / setI / requestFrame
SetTimer(i, kind) ==
    LET h == Len(res) + 1
        S1 == Acquire(Start, NewRes(kind, i, NoSub, TRUE, Late(i)))
    IN /\ HasRoom(St)
       /\ Commit(CASE kind = "timeout" -> [S1 EXCEPT !.insts[i].timeouts = SetAdd(@, h)]
                   [] kind = "interval" -> [S1 EXCEPT !.insts[i].intervals = SetAdd(@, h)]
                   [] kind = "raf" -> [S1 EXCEPT !.insts[i].rafs = SetAdd(@, h)],
                 Call("acquire", NoErr))

\* The mutant of Untrack: the id stays in its set.
UntrackKeeps(S, i, kind, h) == S

\* this._timeouts.delete(id) / this._intervals.delete(id) / this._rafs.delete(id)
Untrack(S, i, kind, h) ==
    CASE kind = "timeout" -> [S EXCEPT !.insts[i].timeouts = SetDelete(@, h)]
      [] kind = "interval" -> [S EXCEPT !.insts[i].intervals = SetDelete(@, h)]
      [] kind = "raf" -> [S EXCEPT !.insts[i].rafs = SetDelete(@, h)]

\* inst.clearT(id) / clearI(id) / cancelFrame(id), with an id the matching
\* setT / setI / requestFrame of inst returned
ClearTimer(i, h) ==
    /\ res[h].kind \in TimerKinds
    /\ res[h].owner = i
    /\ res[h].rel < MaxRel
    /\ Commit(Untrack(HostCancel(Start, i, h), i, res[h].kind, h), Call("release", NoErr))

\* inst.addAbortController(ac)
AddAbortController(i) ==
    LET h == Len(res) + 1
    IN /\ HasRoom(St)
       /\ Commit([Acquire(Start, NewRes("abort", i, NoSub, TRUE, Late(i)))
                    EXCEPT !.insts[i].aborts = SetAdd(@, h)],
                 Call("acquire", NoErr))

\* The host runs the callback of a pending timer: once for a timeout or an
\* animation frame, again and again for an interval (here: once).
Fire(h) ==
    /\ res[h].kind \in TimerKinds
    /\ res[h].live
    /\ res[h].fired = 0
    /\ Commit([Start EXCEPT !.res[h].fired = @ + 1,
                            !.res[h].live = (res[h].kind = "interval")],
              Call("fire", NoErr))

\* ---------------------------------------------------------------- the system
RoomRes == Len(res) < MaxRes

\* The documents: element 1 is a child of the body and every other element
\* the child of an element of smaller index (siblings are in index order).
Trees ==
    {f \in [Elems -> {Body} \cup Elems] : \A e \in Elems : f[e] < e /\ (f[e] = Body <=> e = 1)}

\* Every document, no element marked; all buckets of the registry exist.
Init ==
    /\ parent \in Trees
    /\ marker = [e \in Elems |-> NoMarker]
    /\ REG = [k \in Kinds |-> <<>>]
    /\ insts = <<>>
    /\ res = <<>>
    /\ trace = <<>>
    /\ last = NoCall
    /\ LibAtLoad

\* Construction, destruction and the disposers that re-enter destruct().
Next ==
    \/ \E cls \in Kinds, id \in IdInputs : Construct(cls, id)
    \/ \E i \in Insts : \E beh \in [CbHandles -> ReentrantCbs] : Destruct(i, beh)
    \/ \E i \in Insts : RoomRes /\ AddDisposer(i)

Spec == Init /\ [][Next]_vars

\* The served HTML marks up to MaxPremarked elements with data-light-name, and
\* the registry is the empty object LightBase created at load.
InitMark ==
    /\ parent \in Trees
    /\ marker \in {m \in [Elems -> Kinds \cup {NoMarker}] :
                     Cardinality({e \in Elems : m[e] # NoMarker}) <= MaxPremarked}
    /\ REG = <<>>
    /\ insts = <<>>
    /\ res = <<>>
    /\ trace = <<>>
    /\ last = NoCall
    /\ LibAtLoad

NextMark ==
    \/ \E cls \in Kinds, id \in IdInputs : Construct(cls, id)
    \/ \E i \in Insts : Destruct(i, <<>>)

SpecMark == InitMark /\ [][NextMark]_vars

\* The resource specification: one chain of elements, none marked, at most
\* MaxInstRes instances and MaxRes resources.
InitRes ==
    /\ parent = [e \in Elems |-> e - 1]
    /\ marker = [e \in Elems |-> NoMarker]
    /\ REG = [k \in Kinds |-> <<>>]
    /\ insts = <<>>
    /\ res = <<>>
    /\ trace = <<>>
    /\ last = NoCall
    /\ LibAtLoad

NextRes ==
    \/ \E cls \in Kinds, e \in 1..MaxInstRes : Len(insts) < MaxInstRes /\ Construct(cls, ElemId(e))
    \/ \E i \in Insts : \E beh \in [CbHandles -> PlainCbs] : Destruct(i, beh)
    \/ \E i \in Insts, t \in Targets : RoomRes /\ AddEvent(i, t, "f")
    \/ \E h \in Handles : DisposeEvent(h)
    \/ \E i \in Insts : RoomRes /\ AddDisposer(i)
    \/ \E i \in Insts, o \in ObserverTypes : RoomRes /\ Observe(i, o)
    \/ \E h \in Handles : \E beh \in [CbHandles -> PlainCbs] : DisposeDirect(h, beh)
    \/ \E i \in Insts, k \in TimerKinds : RoomRes /\ SetTimer(i, k)
    \/ \E i \in Insts, h \in Handles : ClearTimer(i, h)
    \/ \E i \in Insts : RoomRes /\ AddAbortController(i)

SpecRes == InitRes /\ [][NextRes]_vars

\* The cascade specification: one chain of elements, up to MaxInst instances
\* that hold listeners, disposers, timeouts and AbortControllers; the callbacks
\* do not re-enter.
NextCascade ==
    \/ \E cls \in Kinds, e \in Elems : Construct(cls, ElemId(e))
    \/ \E i \in Insts : \E beh \in [CbHandles -> PlainCbs] : Destruct(i, beh)
    \/ \E i \in Insts : RoomRes /\ AddEvent(i, "document", "f")
    \/ \E i \in Insts : RoomRes /\ AddDisposer(i)
    \/ \E i \in Insts : RoomRes /\ SetTimer(i, "timeout")
    \/ \E i \in Insts : RoomRes /\ AddAbortController(i)

SpecCascade == InitRes /\ [][NextCascade]_vars

\* ------------------------------------------------------------- properties
\* What the properties say of the instances and of the history of a call.
Registered(i) == Lookup(REG, insts[i].className, insts[i].id) = i
SameIdentity(i, j) == insts[i].className = insts[j].className /\ insts[i].id = insts[j].id
Events(e) == {k \in DOMAIN trace : trace[k].ev = e}
HasEv(e, i) == \E k \in Events(e) : trace[k].i = i
ProgramUnchanged == UNCHANGED <<parent, marker, REG, insts, res>>

\* C1. Constructing an identity (kind, id) whose id is valid, whose element
\* exists and under which an Active instance is registered fails with
\* E_INSTANCE_EXISTS, and the first instance stays Active and registered, with
\* its marker and its resource sets as they were.
C1_DuplicateIdentity ==
    [][\A cls \in Kinds, id \in IdInputs :
         (/\ ValidId(id)
          /\ GetElementById(St, id) # NoElem
          /\ \E i \in Insts : /\ IsActive(insts[i])
                              /\ insts[i].className = cls
                              /\ insts[i].id = id
                              /\ Lookup(REG, cls, id) = i
          /\ Construct(cls, id))
         => (last'.err = "E_INSTANCE_EXISTS" /\ ProgramUnchanged)]_vars

\* A construction was refused as a duplicate of an Active, registered instance
\* that holds a resource.
C1_Witness ==
    /\ last = Call("construct", "E_INSTANCE_EXISTS")
    /\ \E i \in Insts : /\ IsActive(insts[i])
                        /\ Registered(i)
                        /\ marker[insts[i].root] = insts[i].className
                        /\ insts[i].disposers # <<>>

\* C2. In every state reached by constructions and destruct() calls, direct,
\* cascaded or re-entrant, no two instances that are not Destructed have the
\* same (kind, id).
C2_OneLivePerIdentity ==
    \A i, j \in Insts :
        (i # j /\ ~insts[i].isDestructed /\ ~insts[j].isDestructed) => ~SameIdentity(i, j)

\* An identity was constructed again after its first instance was destructed,
\* and the last call was a destruct() that a disposer re-entered.
C2_Witness ==
    /\ \E i, j \in Insts : i # j /\ SameIdentity(i, j) /\ IsActive(insts[i]) /\ insts[j].isDestructed
    /\ last.op = "destruct"
    /\ Events("cbcall") # {}

\* C3. The registry holds an entry for (kind, id) exactly when an instance of
\* that identity was constructed and is not Destructed, and the entry is that
\* instance: whether the calls made so far returned or threw.
C3_RegistryMatchesLiveness ==
    /\ \A i \in Insts : Registered(i) <=> ~insts[i].isDestructed
    /\ \A en \in RegEntries(REG) :
         /\ en[3] \in Insts
         /\ insts[en[3]].className = en[1]
         /\ insts[en[3]].id = en[2]

\* A destruct() call has just thrown, and there are a Destructed instance
\* without an entry and an Active one with its entry.
C3_Witness ==
    /\ last.op = "destruct"
    /\ last.err # NoErr
    /\ \E i \in Insts : insts[i].isDestructed /\ ~Registered(i)
    /\ \E i \in Insts : IsActive(insts[i]) /\ Registered(i)

\* C4. When the destruct() of an Active instance has returned, with or without
\* logged child errors, the instance is Destructed, its root element carries no
\* marker and the registry has no entry for its (kind, id).
C4_DestructPostcondition ==
    \A i \in Insts :
        HasEv("exit", i) =>
            /\ insts[i].isDestructed
            /\ ~insts[i].isDestructing
            /\ marker[insts[i].root] = NoMarker
            /\ Lookup(REG, insts[i].className, insts[i].id) = 0

\* A destruct() returned after it logged the error of a child's destruct().
C4_Witness ==
    \E i \in Insts : HasEv("exit", i) /\ HasEv("danger", i) /\ insts[i].isDestructed

\* The resources C5 counts, and the calls that acquire one for instance i.
Tracked == {"listener", "timeout", "interval", "raf", "abort"}
Acquisition(i) ==
    \/ \E t \in Targets, f \in {"f", "g"} : AddEvent(i, t, f)
    \/ AddDisposer(i)
    \/ \E o \in ObserverTypes : Observe(i, o)
    \/ \E k \in TimerKinds : SetTimer(i, k)
    \/ AddAbortController(i)

\* C5. Every listener record, timeout, interval, animation frame and
\* AbortController an instance acquired in its lifetime is released exactly
\* once: never twice, also not when it was released individually before
\* destruct(), and once when destruct() has returned.
C5_ReleasedExactlyOnce ==
    \A h \in Handles :
        (res[h].kind \in Tracked /\ ~res[h].late) =>
            /\ res[h].rel <= 1
            /\ insts[res[h].owner].isDestructed => res[h].rel = 1

\* C6. destruct() on a Destructed instance fails with
\* LightBase.ALREADY_DESTRUCTED and does nothing: no child is called, nothing is
\* released, and the DOM, markers, registry and flags are as they were.
C6_SecondDestructRejected ==
    [][\A i \in Insts :
         (/\ insts[i].isDestructed
          /\ last'.op = "destruct"
          /\ \E beh \in [CbHandles -> ReentrantCbs] : Destruct(i, beh))
         => (/\ last'.err = "LightBase.ALREADY_DESTRUCTED"
             /\ trace' = <<>>
             /\ ProgramUnchanged)]_vars

\* A destruct() was refused as a second one and left no history, while another
\* instance is Active and registered.
C6_Witness ==
    /\ last = Call("destruct", "LightBase.ALREADY_DESTRUCTED")
    /\ trace = <<>>
    /\ \E i \in Insts : insts[i].isDestructed
    /\ \E j \in Insts : IsActive(insts[j]) /\ Registered(j)

\* C7. An acquisition method called on a Destructing or Destructed instance
\* reports an error and acquires nothing: no resource is created and the
\* resource sets of the instance are unchanged.
C7_AcquisitionRejected ==
    [][\A i \in Insts :
         (~IsActive(insts[i]) /\ last'.op = "acquire" /\ Acquisition(i))
         => (last'.err # NoErr /\ res' = res /\ insts' = insts)]_vars

\* The instances the cascade of destruct() on instance i is to destruct: not i,
\* Active, registered, bound to a marked descendant of the root of i.
Owned(i) ==
    {j \in Insts \ {i} :
        /\ IsActive(insts[j])
        /\ Registered(j)
        /\ marker[insts[j].root] # NoMarker
        /\ IsBelow(parent, insts[j].root, insts[i].root)}
\* Where in the history tr instance j entered and left its destruct().
PosOf(tr, e, j) == CHOOSE k \in DOMAIN tr : tr[k].ev = e /\ tr[k].i = j
CalledIn(tr) == {tr[k].h : k \in {n \in DOMAIN tr : tr[n].ev = "call"}}
EnteredIn(tr) == {tr[k].i : k \in {n \in DOMAIN tr : tr[n].ev = "enter"}}

\* C8. The cascade of a destruct() calls the destruct() of the descendants in
\* order of non-increasing depth below the parent's root, and the instance of
\* a deeper element has been destructed before that of a shallower one is.
C8_DeepestFirst ==
    [][\A i \in Insts :
         (IsActive(insts[i]) /\ last'.op = "destruct" /\ Destruct(i, <<>>)) =>
            LET tr == trace'
                dp(j) == Depth(parent, insts[i].root, insts[j].root)
            IN /\ \A k1, k2 \in DOMAIN tr :
                    (/\ k1 < k2
                     /\ tr[k1].ev = "call"
                     /\ tr[k2].ev = "call"
                     /\ tr[k1].i = tr[k2].i) => tr[k1].d >= tr[k2].d
               /\ \A j1, j2 \in EnteredIn(tr) \ {i} :
                    dp(j1) > dp(j2) => PosOf(tr, "exit", j1) < PosOf(tr, "enter", j2)]_vars

\* A cascade has called two descendants, one deeper than the other.
C8_Witness ==
    /\ last = Call("destruct", NoErr)
    /\ \E k1, k2 \in Events("call") :
         k1 < k2 /\ trace[k1].i = trace[k2].i /\ trace[k1].d > trace[k2].d

\* C9. The instances the cascade of destruct() on an Active instance P
\* destructs are exactly those that at the call are Active, registered and
\* bound to a marked descendant of P's root; each of them ends Destructed and
\* unregistered; an instance bound to an element outside P's subtree keeps
\* its lifecycle state, its registry entry and its marker.
C9_CascadeScope ==
    [][\A i \in Insts :
         (IsActive(insts[i]) /\ last'.op = "destruct" /\ Destruct(i, <<>>)) =>
            /\ CalledIn(trace') = Owned(i)
            /\ EnteredIn(trace') = Owned(i) \cup {i}
            /\ \A j \in Owned(i) :
                 /\ insts'[j].isDestructed
                 /\ Lookup(REG', insts[j].className, insts[j].id) = 0
            /\ \A j \in Insts :
                 (insts[j].root # insts[i].root
                    /\ ~IsBelow(parent, insts[j].root, insts[i].root)) =>
                     /\ insts'[j] = insts[j]
                     /\ (Lookup(REG', insts[j].className, insts[j].id) = j) <=> Registered(j)
                     /\ marker'[insts[j].root] = marker[insts[j].root]]_vars

\* A cascade has destructed a descendant while an Active, registered instance
\* outside the subtree kept its marker.
C9_Witness ==
    /\ last = Call("destruct", NoErr)
    /\ Events("call") # {}
    /\ \E j \in Insts : /\ IsActive(insts[j])
                        /\ Registered(j)
                        /\ marker[insts[j].root] = insts[j].className

\* The resources in the sets of instance i.
Held(i) ==
    Range(insts[i].listeners) \cup Range(insts[i].disposers) \cup Range(insts[i].timeouts)
        \cup Range(insts[i].intervals) \cup Range(insts[i].rafs) \cup Range(insts[i].aborts)

\* C10. When the destruct() of a child throws in the cascade of an Active
\* parent, the parent still calls destruct() on the other descendants it
\* found, releases every listener, disposer, timer and abortable it holds,
\* clears its DOM, removes its marker and its registry entry, and returns
\* without the child's error.
C10_ChildThrowIsolated ==
    [][\A i \in Insts :
         (/\ IsActive(insts[i])
          /\ last'.op = "destruct"
          /\ \E j \in Owned(i) : insts[j].className \in ThrowingKinds
          /\ \E beh \in [CbHandles -> PlainCbs] : Destruct(i, beh)) =>
            /\ \A j \in Owned(i) : j \in CalledIn(trace') /\ insts'[j].isDestructed
            /\ \A h \in Held(i) : res'[h].rel >= 1 /\ ~res'[h].live
            /\ Held(i)' = {}
            /\ \A e \in Elems : parent'[e] # insts[i].root
            /\ marker'[insts[i].root] = NoMarker
            /\ Lookup(REG', insts[i].className, insts[i].id) = 0
            /\ insts'[i].isDestructed
            /\ \E k \in DOMAIN trace' : trace'[k] = Ev("exit", i, 0, 0)
            /\ insts[i].className \notin ThrowingKinds => last'.err = NoErr]_vars

\* A parent logged the error of a child, went on to call another descendant,
\* released a resource of its own and returned.
C10_Witness ==
    /\ last = Call("destruct", NoErr)
    /\ \E i \in Insts : \E k1, k2, k3 \in DOMAIN trace :
         /\ k1 < k2
         /\ k2 < k3
         /\ trace[k1].ev = "danger" /\ trace[k1].i = i
         /\ trace[k2].ev = "call" /\ trace[k2].i = i
         /\ trace[k3].ev \in {"off", "dispose", "cancel", "abort"} /\ trace[k3].i = i
         /\ HasEv("exit", i)

\* t_lightinstances[cls][id] = other, by code outside LightBase: the registry is
\* a property of the global object (REG_NAME), which LightBase adopts when it
\* exists and which any script of the page can write. The slot of instance i
\* is given to instance j of the same class.
Rebind(i, j) ==
    /\ i # j
    /\ insts[i].className = insts[j].className
    /\ Lookup(REG, insts[i].className, insts[i].id) # j
    /\ Commit([Start EXCEPT !.REG = RegPut(REG, insts[i].className, insts[i].id, j)],
              Call("rebind", NoErr))

\* The slot specification: a chain of elements, instances constructed and
\* destructed, and slots of the registry replaced from outside.
NextSlot ==
    \/ \E cls \in Kinds, e \in Elems : Construct(cls, ElemId(e))
    \/ \E i \in Insts : Destruct(i, <<>>)
    \/ \E i, j \in Insts : Rebind(i, j)

SpecSlot == InitRes /\ [][NextSlot]_vars

\* C11. Every destruct() that started on an Active instance has ended with
\* the instance Destructed (isDestructed true, isDestructing false), whether
\* the call returned or threw.
C11_DestructReachesDestructed ==
    \A i \in Insts :
        HasEv("enter", i) =>
            /\ insts[i].isDestructed
            /\ ~insts[i].isDestructing
            /\ HasEv("exit", i) \/ HasEv("abrupt", i)

\* A destruct() call threw, after it had logged the error of a child's
\* destruct(), and its instance and that child are Destructed.
C11_Witness ==
    /\ last.op = "destruct"
    /\ last.err # NoErr
    /\ \E i \in Insts : \E k \in Events("danger") :
         /\ trace[1] = Ev("enter", i, 0, 0)
         /\ trace[k].i = i
         /\ HasEv("enter", trace[k].h)
         /\ insts[i].isDestructed
         /\ insts[trace[k].h].isDestructed

\* C12. A construction that fails (invalid id, duplicate identity, element
\* not found, ownership conflict) leaves the entries of the registry, the
\* markers of all elements and all existing instances as they were: the slot is
\* claimed only after every check has passed.
C12_FailedConstructionLeavesNoTrace ==
    [][\A cls \in Kinds, id \in IdInputs :
         (last'.op = "construct" /\ last'.err # NoErr /\ Construct(cls, id)) =>
            /\ RegEntries(REG') = RegEntries(REG)
            /\ marker' = marker
            /\ insts' = insts
            /\ parent' = parent
            /\ res' = res]_vars

\* A construction was refused for the owner of its element, after the bucket of
\* its kind had been made: the bucket is empty, no instance of the kind exists,
\* and an instance of another kind is Active.
C12_Witness ==
    /\ last = Call("construct", "LightBase.CONFLICT_OWNER")
    /\ \E k \in DOMAIN REG : REG[k] = <<>> /\ \A i \in Insts : insts[i].className # k
    /\ \E i \in Insts : IsActive(insts[i]) /\ Registered(i)

\* What new cls(ElemId(e)) does on a marked element: it succeeds, binding a new
\* Active instance, when the marker names cls, and fails with
\* LightBase.CONFLICT_OWNER, marker and registry unchanged, when it does not.
MarkedOutcome(cls, e) ==
    IF marker[e] = cls
    THEN /\ last'.err = NoErr
         /\ insts' = Append(insts, NewInst(ElemId(e), e, cls))
         /\ Lookup(REG', cls, ElemId(e)) = Len(insts')
         /\ marker' = marker
    ELSE /\ last'.err = "LightBase.CONFLICT_OWNER"
         /\ marker' = marker
         /\ RegEntries(REG') = RegEntries(REG)
         /\ insts' = insts

\* C13 (amended). Constructing kind K on an element of the document that
\* carries a marker, with no instance registered under (K, id), succeeds when
\* the marker names K and fails with LightBase.CONFLICT_OWNER, leaving marker
\* and registry unchanged, when it names another kind.
C13_MarkedElement ==
    [][\A cls \in Kinds, e \in Elems :
         (/\ last'.op = "construct"
          /\ InDocument(parent, e)
          /\ marker[e] # NoMarker
          /\ Lookup(REG, cls, ElemId(e)) = 0
          /\ Construct(cls, ElemId(e))) => MarkedOutcome(cls, e)]_vars

\* C13 as stated: on an element that carries a marker the construction succeeds
\* when the marker names K (whether or not an instance of K is registered
\* there) and fails with LightBase.CONFLICT_OWNER when it names another kind.
C13_AsStated ==
    [][\A cls \in Kinds, e \in Elems :
         (/\ last'.op = "construct"
          /\ InDocument(parent, e)
          /\ marker[e] # NoMarker
          /\ Construct(cls, ElemId(e))) => MarkedOutcome(cls, e)]_vars

\* A construction succeeded on an element that already carried the marker of
\* its kind.
C13_Witness ==
    /\ last = Call("construct", NoErr)
    /\ HasEv("adopt", Len(insts))
    /\ IsActive(insts[Len(insts)])
    /\ Registered(Len(insts))

\* C14. In every reachable state an element is the root of at most one
\* instance that is not Destructed, whatever the kinds, and the root of such an
\* instance carries the marker naming the kind of that instance.
C14_ExclusiveOwnership ==
    \A i \in Insts :
        ~insts[i].isDestructed =>
            /\ marker[insts[i].root] = insts[i].className
            /\ \A j \in Insts \ {i} :
                 ~insts[j].isDestructed => insts[j].root # insts[i].root

\* An element that an instance of one kind owned and left is owned by a live
\* instance of another kind, and a construction on it was just refused for the
\* owner.
C14_Witness ==
    /\ last = Call("construct", "LightBase.CONFLICT_OWNER")
    /\ \E i, j \in Insts :
         /\ ~insts[i].isDestructed
         /\ insts[j].isDestructed
         /\ insts[i].root = insts[j].root
         /\ insts[i].className # insts[j].className
         /\ marker[insts[i].root] = insts[i].className

\* Instance j is inside its destruct() when the k-th step of the call is taken.
InProgressAt(j, k) ==
    \E n \in 1..(k - 1) :
        /\ trace[n] = Ev("enter", j, 0, 0)
        /\ \A m \in n..k : ~(trace[m].ev \in {"exit", "abrupt"} /\ trace[m].i = j)

\* C15. destruct() called on an instance that is Destructing fails with
\* LightBase.DESTRUCT_IN_PROGRESS and changes nothing: applied to the state an
\* Active instance is in once its destruct() has set isDestructing, the call
\* returns that state and the error; and in every call a disposer that called
\* destruct() of an instance inside its destruct() started no second run of it.
C15_ReentrantDestructRejected ==
    /\ \A j \in Insts :
         IsActive(insts[j]) =>
            LET S0 == [Start EXCEPT !.insts[j].isDestructing = TRUE]
            IN CallDestruct(S0, j) = Out(S0, "LightBase.DESTRUCT_IN_PROGRESS")
    /\ \A k \in Events("cbcall") :
         InProgressAt(trace[k].i, k) =>
            /\ Cardinality({n \in Events("enter") : trace[n].i = trace[k].i}) = 1
            /\ (k + 1) \in DOMAIN trace =>
                 trace[k + 1] # Ev("enter", trace[k].i, 0, 0)
            /\ insts[trace[k].i].isDestructed

\* A disposer called destruct() of an instance that was inside its destruct(),
\* and the outer destruct() went on to release the registry entry.
C15_Witness ==
    \E k \in Events("cbcall") :
        /\ InProgressAt(trace[k].i, k)
        /\ \E n \in Events("unreg") : n > k /\ trace[n].i = trace[k].i
        /\ insts[trace[k].i].isDestructed

\* C16. When a disposer added with addDisposer throws during destruct(), the
\* error is caught and logged at danger level, and every other disposer and
\* every later step (cancellations, aborts, DOM clear, marker removal, registry
\* release) still runs.
C16_DisposerThrowLogged ==
    [][\A i \in Insts : \A beh \in [CbHandles -> PlainCbs] :
         (/\ IsActive(insts[i])
          /\ last'.op = "destruct"
          /\ Destruct(i, beh)) =>
            \A h \in Range(insts[i].disposers) :
                (res[h].kind = "disposer" /\ beh[h] = Cb("throw", 0)) =>
                    /\ \E k \in DOMAIN trace' :
                         trace'[k].ev = "danger" /\ trace'[k].i = i /\ trace'[k].h = h
                    /\ \A g \in Held(i) : res'[g].rel >= 1
                    /\ \A e \in Elems : parent'[e] # insts[i].root
                    /\ marker'[insts[i].root] = NoMarker
                    /\ Lookup(REG', insts[i].className, insts[i].id) = 0
                    /\ insts'[i].isDestructed]_vars

\* C17. The lifecycle of an instance only moves Active -> Destructing ->
\* Destructed: no call makes a Destructed instance Active or Destructing again
\* or runs its destruct() again, an instance enters its destruct() at most once
\* in a call and leaves it afterwards, and isDestructing and isDestructed are
\* never both true.
C17_LifecycleForward ==
    [][\A i \in Insts :
         LET enters == {k \in DOMAIN trace' : trace'[k] = Ev("enter", i, 0, 0)}
             leaves == {k \in DOMAIN trace' :
                          trace'[k].ev \in {"exit", "abrupt"} /\ trace'[k].i = i}
         IN /\ ~(insts'[i].isDestructing /\ insts'[i].isDestructed)
            /\ Cardinality(enters) <= 1
            /\ Cardinality(leaves) = Cardinality(enters)
            /\ \A k \in enters : \A n \in leaves : k < n
            /\ enters # {} => insts'[i].isDestructed
            /\ insts[i].isDestructed =>
                 /\ enters = {}
                 /\ insts'[i].isDestructed
                 /\ ~insts'[i].isDestructing]_vars

\* A Destructed instance was called again (a disposer was added to it) and is
\* still Destructed.
C17_Witness ==
    /\ last.op = "acquire"
    /\ \E h \in Handles :
         /\ res[h].late
         /\ insts[res[h].owner].isDestructed
         /\ ~insts[res[h].owner].isDestructing

\* C18. The registry release of destruct() removes the entry of (kind, id)
\* only if the entry is the instance being destructed; an entry that holds
\* another instance is left in place.
C18_ReleaseOnlyOwnSlot ==
    [][\A i \in Insts :
         (IsActive(insts[i]) /\ last'.op = "destruct" /\ Destruct(i, <<>>)) =>
            LET holder == Lookup(REG, insts[i].className, insts[i].id)
            IN Lookup(REG', insts[i].className, insts[i].id)
                 = IF holder = i THEN 0 ELSE holder]_vars

\* A destruct() ran to its end without a registry release, and the slot of its
\* instance holds another instance.
C18_Witness ==
    /\ last = Call("destruct", NoErr)
    /\ \E i \in Insts :
         /\ trace[1] = Ev("enter", i, 0, 0)
         /\ HasEv("exit", i)
         /\ ~HasEv("unreg", i)
         /\ Lookup(REG, insts[i].className, insts[i].id) \in Insts \ {i}

\* C19. clearT(h), clearI(h), cancelFrame(h) on a handle h that setT, setI,
\* requestFrame of the instance returned cancels h and removes it from the
\* tracking set, and a later destruct() of the instance does not cancel h again.
C19_ClearedTimerNotCancelledAgain ==
    [][\A i \in Insts :
         /\ \A h \in Handles :
              (last'.op = "release" /\ ClearTimer(i, h)) =>
                 /\ ~res'[h].live
                 /\ res'[h].rel = res[h].rel + 1
                 /\ h \notin Held(i)'
         /\ (/\ IsActive(insts[i])
             /\ last'.op = "destruct"
             /\ \E beh \in [CbHandles -> PlainCbs] : Destruct(i, beh)) =>
                \A h \in Handles :
                    (res[h].kind \in TimerKinds /\ res[h].owner = i /\ res[h].rel >= 1) =>
                        res'[h] = res[h]]_vars

\* A destruct() ran to its end without cancelling a timer of its instance that
\* had been cleared before.
C19_Witness ==
    /\ last = Call("destruct", NoErr)
    /\ \E h \in Handles :
         /\ res[h].kind \in TimerKinds
         /\ ~res[h].late
         /\ res[h].rel = 1
         /\ HasEv("exit", res[h].owner)
         /\ \A k \in Events("cancel") : trace[k].h # h

\* C20. Removing one tracked listener, through the disposer addEvent returned
\* or through destruct() of its owner, unsubscribes that subscription only:
\* every listener record of an Active instance that was not itself removed is
\* still subscribed, also when it has the same target, type, selector and
\* handler as the removed one.
C20_OtherSubscriptionsStay ==
    \A h \in Handles :
        (/\ res[h].kind = "listener"
         /\ res[h].rel = 0
         /\ IsActive(insts[res[h].owner])) => res[h].live

\* The step of destruct() an event of the history belongs to, in the order the
\* claim gives; 0 for the events that are not steps of the instance's own run.
StepRank(e) ==
    CASE e.ev \in {"call", "danger"} -> 1
      [] e.ev = "off" -> 2
      [] e.ev = "dispose" -> 3
      [] e.ev = "cancel" -> 4
      [] e.ev = "abort" -> 5
      [] e.ev = "clear" -> 6
      [] e.ev = "unmark" -> 7
      [] e.ev = "unreg" -> 8
      [] e.ev \in {"exit", "abrupt"} -> 9
      [] OTHER -> 0

\* C29. Within one destruct() the steps of an instance come in this order:
\* cascaded destructs, listeners, disposers, timers and frames, abortables,
\* content, marker, registry entry, and the Destructed state last; and every
\* cascaded destruct has returned before the first step after the cascade.
C29_StepOrder ==
    \A k, l \in DOMAIN trace :
        /\ (/\ k < l
            /\ trace[k].i = trace[l].i
            /\ StepRank(trace[k]) > 0
            /\ StepRank(trace[l]) > 0) => StepRank(trace[k]) <= StepRank(trace[l])
        /\ (/\ trace[k].ev = "call"
            /\ trace[l].i = trace[k].i
            /\ StepRank(trace[l]) > 1) =>
               \E m \in DOMAIN trace :
                   /\ k < m /\ m < l
                   /\ trace[m].ev \in {"exit", "abrupt"}
                   /\ trace[m].i = trace[k].h

\* A destruct() cascaded to a child and then removed a listener, ran a
\* disposer, cleared the content, removed the marker and released the entry.
C29_Witness ==
    /\ last = Call("destruct", NoErr)
    /\ \E i \in Insts :
         /\ trace[1] = Ev("enter", i, 0, 0)
         /\ \E k \in Events("call") : trace[k].i = i
         /\ \A e \in {"off", "dispose", "clear", "unmark", "unreg", "exit"} : HasEv(e, i)

\* The error the claimed order of checks reports for new cls(id): element,
\* identity, duplicate, owner.
FirstInClaimedOrder(cls, id) ==
    LET el == GetElementById(St, id)
    IN IF el = NoElem THEN "E_NO_ELEMENT"
       ELSE IF ~ValidId(id) THEN "LightBase.INVALID_CONSTRUCTOR_ID"
       ELSE IF Lookup(REG, cls, id) # 0 THEN "E_INSTANCE_EXISTS"
       ELSE IF ~OwnerOk(marker[el], cls) THEN "LightBase.CONFLICT_OWNER"
       ELSE NoErr

\* C30. A construction that violates more than one precondition reports the
\* first violated check in the order ElementNotFound, InvalidIdentity,
\* DuplicateIdentity, OwnershipConflict.
C30_ErrorPrecedence ==
    [][\A cls \in Kinds, id \in IdInputs :
         Construct(cls, id) => last'.err = FirstInClaimedOrder(cls, id)]_vars

\* The cleanup callbacks and the abort() calls in the history of the call.
CallbackSteps == Events("dispose") \cup Events("abort")

NextTimers ==
    \/ \E e \in 1..MaxInstRes : Len(insts) < MaxInstRes /\ Construct("A", ElemId(e))
    \/ \E i \in Insts :
          \E beh \in {b \in [CbHandles -> {NoCb} \cup {Cb("setT", j) : j \in Insts}] :
                        \A h \in CbHandles : b[h].op = "setT" => b[h].j = res[h].owner} :
             Destruct(i, beh)
    \/ \E i \in Insts, k \in TimerKinds : RoomRes /\ IsActive(insts[i]) /\ SetTimer(i, k)
    \/ \E i \in Insts, h \in Handles : ClearTimer(i, h)
    \/ \E i \in Insts : RoomRes /\ IsActive(insts[i]) /\ AddDisposer(i)
    \/ \E i \in Insts : RoomRes /\ IsActive(insts[i]) /\ AddAbortController(i)
    \/ \E h \in Handles : Fire(h)

SpecTimers == InitRes /\ [][NextTimers]_vars

\* The timers of a kind that instance i scheduled and that are still pending:
\* not run yet (a timeout, a frame), not cancelled.
Pending(i, kind) ==
    {h \in Handles : res[h].kind = kind /\ res[h].owner = i /\ res[h].live}

\* C32. For an Active instance the timeout set holds exactly the handles of
\* its pending timeouts and the frame set exactly the handles of its pending
\* animation frames.
C32_SetsHoldPendingHandles ==
    \A i \in Insts :
        IsActive(insts[i]) =>
            /\ Range(insts[i].timeouts) = Pending(i, "timeout")
            /\ Range(insts[i].rafs) = Pending(i, "raf")

\* C34. No callback of a timer of an instance, scheduled before the
\* destruct() of the instance returned, runs once that destruct() has
\* returned: the host never runs a timer callback of a Destructed instance.
C34_NoCallbackAfterDestruct ==
    [][\A h \in Handles :
         res'[h].fired > res[h].fired => ~insts[res[h].owner].isDestructed]_vars

\* C33. The cleanup body of an instance runs at most once: a call runs it at
\* most once for an instance, only for an instance that was Active when the
\* call started, and leaves that instance Destructed. The cascade calls the
\* destruct() of a descendant only when it is neither Destructing nor
\* Destructed, and logs an error only for a descendant it called.
C33_CleanupAtMostOnce ==
    [][last'.op = "destruct" =>
         /\ \A i \in Insts :
              LET runs == {n \in DOMAIN trace' : trace'[n] = Ev("enter", i, 0, 0)}
              IN /\ Cardinality(runs) <= 1
                 /\ runs # {} => (IsActive(insts[i]) /\ insts'[i].isDestructed)
         /\ \A k \in DOMAIN trace' :
              LET j == trace'[k].h
              IN /\ trace'[k].ev = "call" =>
                      /\ IsActive(insts[j])
                      /\ \A n \in 1..k : trace'[n] # Ev("enter", j, 0, 0)
                      /\ trace'[k + 1] = Ev("enter", j, 0, 0)
                 /\ trace'[k].ev = "danger" =>
                      \E n \in 1..k : /\ trace'[n].ev = "call"
                                      /\ trace'[n].i = trace'[k].i
                                      /\ trace'[n].h = j]_vars

\* A disposer of an instance j called the destruct() of the instance i that
\* owns the outermost element, while j was inside its destruct() and its
\* element still below that of i; the cascade of i did not call j, and i
\* ended.
C33_Witness ==
    /\ last.op = "destruct"
    /\ \E k \in Events("cbcall") : \E j \in Insts :
         LET i == trace[k].i
         IN /\ i # j
            /\ insts[i].root = 1
            /\ InProgressAt(j, k)
            /\ \A n \in 1..k : trace[n].ev # "clear"
            /\ trace[k + 1] = Ev("enter", i, 0, 0)
            /\ \A n \in Events("call") : ~(trace[n].i = i /\ trace[n].h = j)
            /\ HasEv("exit", i)
            /\ HasEv("exit", j)

\* An instance of identity (cls, ElemId(e)) is Destructed, e is in the
\* document and carries no marker of another kind.
Reusable(cls, e) ==
    /\ \E i \in Insts : /\ insts[i].className = cls
                        /\ insts[i].id = ElemId(e)
                        /\ insts[i].isDestructed
    /\ InDocument(parent, e)
    /\ marker[e] \in {NoMarker, cls}

\* The construction gave a new instance on e that is Active, registered and
\* holds no resource.
Fresh(cls, e) ==
    /\ last'.err = NoErr
    /\ Len(insts') = Len(insts) + 1
    /\ insts'[Len(insts')] = NewInst(ElemId(e), e, cls)
    /\ Lookup(REG', cls, ElemId(e)) = Len(insts')
    /\ marker'[e] = cls

\* C35. Once the destruct() of the instance that held identity (kind, id) has
\* returned (every instance of the identity is Destructed), a new
\* construction with the same (kind, id) succeeds when the element is in the
\* document and carries no marker of another kind: the new instance is Active,
\* registered, and its resource sets are empty.
C35_IdentityReusable ==
    [][\A cls \in Kinds, e \in Elems :
         (/\ Reusable(cls, e)
          /\ \A i \in Insts :
               (insts[i].className = cls /\ insts[i].id = ElemId(e)) => insts[i].isDestructed
          /\ Construct(cls, ElemId(e))) => Fresh(cls, e)]_vars

\* An identity was constructed again after the destruct() of its first
\* holder: the last instance is Active and registered, an earlier one of the
\* same identity is Destructed.
C35_Witness ==
    /\ last = Call("construct", NoErr)
    /\ \E i \in Insts :
         /\ i < Len(insts)
         /\ SameIdentity(i, Len(insts))
         /\ insts[i].isDestructed
         /\ IsActive(insts[Len(insts)])
         /\ Registered(Len(insts))

\* ------------------------------------------------- L.on: event delegation
\* target.matches(selector): a selector is an attribute selector
\* [data-light-name="K"], it matches the elements whose marker is K.
Matches(S, e, sel) == e \in Elems /\ S.marker[e] = sel

\* target.parentElement (the body's parent chain holds no element of Elems)
ParentElement(S, e) == IF e \in Elems THEN S.parent[e] ELSE NoElem

RECURSIVE WrapDelegateOutermost(_, _, _, _)
\* The mutant of WrapDelegate: the walk does not stop at the first match, the
\* outermost matching node receives the call.
WrapDelegateOutermost(S, root, sel, target) ==
    IF target = NoElem \/ target = root THEN NoElem
    ELSE LET up == WrapDelegateOutermost(S, root, sel, ParentElement(S, target))
         IN IF up # NoElem THEN up
            ELSE IF Matches(S, target, sel) THEN target ELSE NoElem

RECURSIVE WrapDelegate(_, _, _, _)
\* _wrapDelegate(selector, handler), run with this = root for an event whose
\* walk has reached target: the node handler is called on, NoElem for none.
WrapDelegate(S, root, sel, target) ==
    IF target = NoElem \/ target = root THEN NoElem
    ELSE IF Matches(S, target, sel) THEN target
    ELSE WrapDelegate(S, root, sel, ParentElement(S, target))

RECURSIVE BubblePath(_, _)
\* The nodes an event that originates at e passes, from e up to the body.
BubblePath(par, e) ==
    IF e = NoElem THEN <<>>
    ELSE IF e = Body THEN <<Body>>
    ELSE <<e>> \o BubblePath(par, par[e])

RECURSIVE Deliver(_, _, _, _, _)
\* The listeners added to node with root.addEventListener(type, finalHandler)
\* run for the event, from record h on: the wrapper of a delegated record,
\* the handler itself of a direct one (the host keeps one listener for equal
\* arguments, the first).
Deliver(S, node, type, origin, h) ==
    IF h > Len(S.res) THEN S
    ELSE LET r == S.res[h]
             hears == /\ r.kind = "listener"
                      /\ r.live
                      /\ r.sub.target = node
                      /\ r.sub.type = type
             first == ~\E g \in 1..(h - 1) :
                         S.res[g].kind = "listener" /\ S.res[g].live /\ S.res[g].sub = r.sub
             recv == IF r.sub.selector = NoSelector
                     THEN (IF first THEN node ELSE NoElem)
                     ELSE WrapDelegate(S, node, r.sub.selector, origin)
         IN Deliver(IF hears /\ recv # NoElem THEN Log(S, "handler", recv, h) ELSE S,
                    node, type, origin, h + 1)

RECURSIVE Bubble(_, _, _, _)
Bubble(S, path, type, origin) ==
    IF path = <<>> THEN S
    ELSE Bubble(Deliver(S, Head(path), type, origin, 1), Tail(path), type, origin)

\* L.on(root, 'click', selector, f) and L.on(root, 'click', f)
On(root, selector) ==
    /\ RoomRes
    /\ Commit(Acquire(Start, NewRes("listener", 0, Sub(root, "click", selector, "f"), TRUE, FALSE)),
              Call("on", NoErr))

\* L.off(root, type, selector, f) with the arguments of record h
Off(h) ==
    /\ res[h].kind = "listener"
    /\ res[h].live
    /\ Commit(LOff(Start, res[h].sub), Call("off", NoErr))

\* The host dispatches a bubbling event of a type at the node origin; the
\* history starts with the event.
Dispatch(origin, type) ==
    Commit(Bubble([Start EXCEPT !.trace = <<Ev(type, origin, 0, 0)>>],
                  BubblePath(parent, origin), type, origin),
           Call("dispatch", NoErr))

\* Every document, every marking of its elements, no subscription.
InitDelegate ==
    /\ parent \in Trees
    /\ marker \in [Elems -> Kinds \cup {NoMarker}]
    /\ REG = <<>>
    /\ insts = <<>>
    /\ res = <<>>
    /\ trace = <<>>
    /\ last = NoCall
    /\ LibAtLoad

\* The subscriptions are to 'click', with the selector of a kind or none; the
\* events dispatched are of two types.
NextDelegate ==
    \/ \E root \in Elems \cup {Body}, sel \in Kinds \cup {NoSelector} : On(root, sel)
    \/ \E h \in Handles : Off(h)
    \/ \E origin \in Elems, t \in {"click", "input"} : Dispatch(origin, t)

SpecDelegate == InitDelegate /\ [][NextDelegate]_vars

\* The nodes from the origin of the event upward to (excluding) root that
\* match the selector of subscription h.
MatchingOnPath(h, origin) ==
    {e \in Elems : /\ (e = origin \/ IsBelow(parent, origin, e))
                   /\ IsBelow(parent, e, res[h].sub.target)
                   /\ marker[e] = res[h].sub.selector}

\* The calls of the handler of subscription h in the history of the dispatch.
HandlerCalls(h) ==
    {k \in DOMAIN trace : k > 1 /\ trace[k].ev = "handler" /\ trace[k].h = h}

\* C21. For a delegated subscription on(root, type, selector, handler), an
\* event of that type that originates inside root calls handler at most once,
\* on the first node matching selector on the path from the origin upward to
\* (excluding) root, and not at all if no node of that path matches.
C21_DelegatedReceiver ==
    last.op = "dispatch" =>
        \A h \in Handles :
            (/\ res[h].live
             /\ res[h].sub.selector # NoSelector
             /\ res[h].sub.type = trace[1].ev
             /\ IsBelow(parent, trace[1].i, res[h].sub.target)) =>
                LET on == MatchingOnPath(h, trace[1].i)
                    calls == HandlerCalls(h)
                IN /\ Cardinality(calls) <= 1
                   /\ (on = {}) = (calls = {})
                   /\ \A k \in calls :
                        /\ trace[k].i \in on
                        /\ \A e \in on : e = trace[k].i \/ IsBelow(parent, trace[k].i, e)

\* An event was dispatched below the root of a delegated subscription, two
\* nodes of its path match, the origin is not one of them, and the handler ran.
C21_Witness ==
    /\ last.op = "dispatch"
    /\ \E h \in Handles :
         /\ res[h].live
         /\ res[h].sub.selector # NoSelector
         /\ Cardinality(MatchingOnPath(h, trace[1].i)) = 2
         /\ trace[1].i \notin MatchingOnPath(h, trace[1].i)
         /\ HandlerCalls(h) # {}

\* ------------------------------------------------------ LightTip: placement
\* Bounds of the geometry: the coordinates are multiples of Step up to
\* MaxCoord, the tip is SmallTip or BigTip wide and high.
Step == 20
MaxCoord == 40
SmallTip == 10
BigTip == 21

\* fitsViewport(pos, tipSize, margin = 4); min = 8 of _positionArrow; the
\* default offset; the off-screen position of _ensureDom.
Margin == 4
ArrowInset == 8
DefaultOffset == 8
OffScreen == 0 - 9999

\* The words of a placement.
Word ==
    [auto |-> <<"a", "u", "t", "o">>, top |-> <<"t", "o", "p">>,
     bottom |-> <<"b", "o", "t", "t", "o", "m">>, left |-> <<"l", "e", "f", "t">>,
     right |-> <<"r", "i", "g", "h", "t">>, start |-> <<"s", "t", "a", "r", "t">>,
     center |-> <<"c", "e", "n", "t", "e", "r">>, end |-> <<"e", "n", "d">>]

\* a + sep + b
Joined(a, sep, b) == a \o <<sep>> \o b

\* str.split(sep): cur is the part being read, k the next character.
Split(str, sep) ==
    LET RECURSIVE SplitFrom(_, _)
        SplitFrom(k, cur) ==
            IF k > Len(str) THEN <<cur>>
            ELSE IF str[k] = sep THEN <<cur>> \o SplitFrom(k + 1, <<>>)
            ELSE SplitFrom(k + 1, Append(cur, str[k]))
    IN SplitFrom(1, <<>>)

\* str.slice(n)
Slice(str, n) == SubSeq(str, n + 1, Len(str))

Sides == {Word.top, Word.bottom, Word.left, Word.right}
Aligns == {Word.start, Word.center, Word.end}
Placement(side, align, auto) == [side |-> side, align |-> align, auto |-> auto]

\* parsePlacement(p)
ParsePlacement(p) ==
    IF p = <<>> THEN Placement(Word.top, Word.center, FALSE)
    ELSE LET prefix == Append(Word.auto, "-")
             auto == Len(p) >= Len(prefix) /\ SubSeq(p, 1, Len(prefix)) = prefix
             spec == IF auto THEN Slice(p, 5) ELSE p
             parts == Split(spec, "-")
             side == parts[1]
             align == IF Len(parts) >= 2 THEN parts[2] ELSE <<>>
         IN Placement(IF side = <<>> THEN Word.top ELSE side,
                      IF align = <<>> THEN Word.center ELSE align, auto)

\* A DOMRect the host reports, and a size.
Rect(left, top, width, height) ==
    [left |-> left, top |-> top, width |-> width, height |-> height,
     right |-> left + width, bottom |-> top + height]
Size(width, height) == [width |-> width, height |-> height]

\* Math.round(x) of the number x = x2 / 2: the nearest integer, a half upward.
Round2(x2) == (x2 + 1) \div 2

\* The mutant of CrossStart: 'end' is read as 'start'.
CrossStartEndAsStart(align, lo, hi, anchorSize, tipSize) ==
    IF align = Word.start THEN 2 * lo
    ELSE IF align = Word.end THEN 2 * lo
    ELSE 2 * lo + (anchorSize - tipSize)

\* The cross-axis coordinate of computePosition, times two: for `start` the
\* anchor's start edge lo, for `end` its end edge hi minus the tip size,
\* else lo + (anchorSize - tipSize) / 2.
CrossStart(align, lo, hi, anchorSize, tipSize) ==
    IF align = Word.start THEN 2 * lo
    ELSE IF align = Word.end THEN 2 * (hi - tipSize)
    ELSE 2 * lo + (anchorSize - tipSize)

\* computePosition(anchorRect, tipSize, placement, offset)
ComputePosition(a, t, pl, o) ==
    LET v == CrossStart(pl.align, a.top, a.bottom, a.height, t.height)
        h == CrossStart(pl.align, a.left, a.right, a.width, t.width)
    IN IF pl.side = Word.right THEN [left |-> Round2(2 * (a.right + o)), top |-> Round2(v)]
       ELSE IF pl.side = Word.left
       THEN [left |-> Round2(2 * (a.left - t.width - o)), top |-> Round2(v)]
       ELSE IF pl.side = Word.top
       THEN [left |-> Round2(h), top |-> Round2(2 * (a.top - t.height - o))]
       ELSE [left |-> Round2(h), top |-> Round2(2 * (a.bottom + o))]

\* fitsViewport(pos, tipSize), with L.viewport() = view
FitsViewport(pos, t, view) ==
    /\ pos.left >= Margin
    /\ pos.top >= Margin
    /\ pos.left + t.width <= view.width - Margin
    /\ pos.top + t.height <= view.height - Margin

\* { top:'bottom', bottom:'top', left:'right', right:'left' }[side]
OppositeSide(side) ==
    CASE side = Word.top -> Word.bottom
      [] side = Word.bottom -> Word.top
      [] side = Word.left -> Word.right
      [] side = Word.right -> Word.left

\* The mutant of FallbackPlacements: the perpendicular sides are tried before
\* the opposite side.
FallbackPlacementsPerpendicularFirst(pref) ==
    LET others == SelectSeq(<<Word.start, Word.center, Word.end>>, LAMBDA al : al # pref.align)
    IN <<pref, Placement(pref.side, others[1], TRUE), Placement(pref.side, others[2], TRUE)>>
       \o (IF pref.side \in {Word.top, Word.bottom}
           THEN <<Placement(Word.left, Word.center, TRUE), Placement(Word.right, Word.center, TRUE)>>
           ELSE <<Placement(Word.top, Word.center, TRUE), Placement(Word.bottom, Word.center, TRUE)>>)
       \o <<Placement(OppositeSide(pref.side), pref.align, TRUE)>>

\* fallbackPlacements(preferred)
FallbackPlacements(pref) ==
    LET others == SelectSeq(<<Word.start, Word.center, Word.end>>, LAMBDA al : al # pref.align)
    IN <<pref, Placement(pref.side, others[1], TRUE), Placement(pref.side, others[2], TRUE),
         Placement(OppositeSide(pref.side), pref.align, TRUE)>>
       \o (IF pref.side \in {Word.top, Word.bottom}
           THEN <<Placement(Word.left, Word.center, TRUE), Placement(Word.right, Word.center, TRUE)>>
           ELSE <<Placement(Word.top, Word.center, TRUE), Placement(Word.bottom, Word.center, TRUE)>>)

RECURSIVE FirstFit(_, _, _, _, _, _)
\* for (const p of fallbackPlacements(pref)) { ... break; }: from the k-th
\* candidate on; cur is what chosen and pos hold when no candidate fits.
FirstFit(cands, k, a, t, o, cur) ==
    IF k > Len(cands) THEN cur.keep
    ELSE LET testPos == ComputePosition(a, t, cands[k], o)
         IN IF FitsViewport(testPos, t, cur.view)
            THEN [chosen |-> cands[k], pos |-> testPos]
            ELSE FirstFit(cands, k + 1, a, t, o, cur)

\* _positionArrow: Math.round(Math.max(min, Math.min(max, offset)))
ArrowOffset(a, t, side, pos) ==
    LET horizontal == side \in {Word.top, Word.bottom}
        center2 == IF horizontal THEN 2 * a.left + a.width ELSE 2 * a.top + a.height
        tipStart == IF horizontal THEN pos.left ELSE pos.top
        offset2 == center2 - 2 * tipStart
        min2 == 2 * ArrowInset
        max2 == 2 * ((IF horizontal THEN t.width ELSE t.height) - ArrowInset)
        lower2 == IF max2 < offset2 THEN max2 ELSE offset2
    IN Round2(IF min2 > lower2 THEN min2 ELSE lower2)

\* _positionWithArrow(anchorRect), _applyPosition and _positionArrow: the host
\* reports the anchor's rectangle a, the tip's size t and the viewport view.
PositionWithArrow(T, a, t, view) ==
    LET pref == ParsePlacement(T.placement)
        first == [chosen |-> pref, pos |-> ComputePosition(a, t, pref, T.offset)]
        r == IF pref.auto
             THEN FirstFit(FallbackPlacements(pref), 1, a, t, T.offset,
                           [keep |-> first, view |-> view])
             ELSE first
    IN [T EXCEPT !.anchor = a, !.size = t, !.view = view,
                 !.left = r.pos.left, !.top = r.pos.top,
                 !.applied = Joined(r.chosen.side, "-", r.chosen.align),
                 !.side = r.chosen.side,
                 !.arrow = ArrowOffset(a, t, r.chosen.side, r.pos)]

\* What the host may report: the anchor's rectangle, the measured size of the
\* tip, the viewport.
AnchorRects ==
    LET Coords == {c \in 0..MaxCoord : c % Step = 0}
    IN {Rect(l, t, SmallTip, SmallTip) : l \in Coords, t \in Coords}
Viewports == {Size(MaxCoord + Step, MaxCoord + Step), Size(Step, Step)}

\* LightTip.attach(anchor, { placement, offset }): the tip is not shown yet;
\* _ensureDom will put it off screen.
NewTip(placement, offset) ==
    [placement |-> placement, offset |-> offset, open |-> FALSE,
     anchor |-> Rect(0, 0, 0, 0), size |-> Size(0, 0), view |-> Size(0, 0),
     left |-> OffScreen, top |-> OffScreen, applied |-> <<>>, side |-> <<>>, arrow |-> 0]

TipStep(T, op) ==
    /\ tip' = T
    /\ last' = Call(op, NoErr)
    /\ UNCHANGED <<parent, marker, REG, insts, res, trace, errors, io, page>>

\* tip.show()
Show(a, t, view) ==
    /\ ~tip.open
    /\ TipStep([PositionWithArrow(tip, a, t, view) EXCEPT !.open = TRUE], "show")

\* tip.update(), as the resize and scroll listeners call it: the anchor has
\* moved or the viewport has changed, the tip measures as before.
Update(a, view) ==
    /\ tip.open
    /\ TipStep(PositionWithArrow(tip, a, tip.size, view), "update")

\* tip.hide()
Hide ==
    /\ tip.open
    /\ TipStep([tip EXCEPT !.open = FALSE], "hide")

\* A tip attached with one of the values of the option `placement`
\* ('side-align' and 'auto-side-align', a side alone, with and without
\* 'auto-', and no value), at no offset or at the default one.
InitTip ==
    /\ parent = [e \in Elems |-> e - 1]
    /\ marker = [e \in Elems |-> NoMarker]
    /\ REG = <<>>
    /\ insts = <<>>
    /\ res = <<>>
    /\ trace = <<>>
    /\ last = NoCall
    /\ errors = ErrorsAtLoad
    /\ io = [op |-> "none"]
    /\ PageAtLoad
    /\ tip \in {NewTip(p, o) : p \in {Joined(sd, "-", al) : sd \in Sides, al \in Aligns}
                                    \cup {Joined(Word.auto, "-", Joined(sd, "-", al)) :
                                             sd \in Sides, al \in Aligns}
                                    \cup {Word.top, Joined(Word.auto, "-", Word.bottom), <<>>},
                              o \in {0, DefaultOffset}}

NextTip ==
    \/ \E a \in AnchorRects, w, h \in {SmallTip, BigTip}, view \in Viewports :
          Show(a, Size(w, h), view)
    \/ \E a \in AnchorRects, view \in Viewports : Update(a, view)
    \/ Hide

SpecTip == InitTip /\ [][NextTip]_vars

\* The tip has been positioned (show() has run).
Positioned == tip.applied # <<>>

\* The auto placements 'auto-side-align', and the group of the fallback order
\* a candidate belongs to when side-align is preferred: the preferred
\* placement, the same side at another alignment, the opposite side at the
\* same alignment, a perpendicular side at center.
FallbackGroup(sd, al, c) ==
    IF c.side = sd /\ c.align = al THEN 1
    ELSE IF c.side = sd THEN 2
    ELSE IF c.side = OppositeSide(sd) /\ c.align = al THEN 3
    ELSE IF c.side # OppositeSide(sd) /\ c.align = Word.center THEN 4
    ELSE 0

\* The candidates of 'auto-sd-al' whose box fits the viewport with the margin.
FittingCandidates(sd, al) ==
    {c \in [side : Sides, align : Aligns] :
        /\ FallbackGroup(sd, al, c) > 0
        /\ FitsViewport(ComputePosition(tip.anchor, tip.size, c, tip.offset),
                        tip.size, tip.view)}

\* C22. In auto mode the placement chosen is a candidate that fits the
\* viewport with a margin of 4, taken from the first group of the fallback
\* order (preferred, same side, opposite side, perpendicular sides) that has a
\* fitting candidate; so whenever a candidate fits, the box rendered lies
\* inside the viewport margin.
C22_FirstFittingCandidate ==
    \A sd \in Sides, al \in Aligns :
        (/\ Positioned
         /\ tip.placement = Joined(Word.auto, "-", Joined(sd, "-", al))
         /\ FittingCandidates(sd, al) # {}) =>
            /\ \E c \in FittingCandidates(sd, al) :
                 /\ tip.applied = Joined(c.side, "-", c.align)
                 /\ [left |-> tip.left, top |-> tip.top]
                      = ComputePosition(tip.anchor, tip.size, c, tip.offset)
                 /\ \A d \in FittingCandidates(sd, al) :
                      FallbackGroup(sd, al, c) <= FallbackGroup(sd, al, d)
            /\ tip.left >= Margin
            /\ tip.top >= Margin
            /\ tip.left + tip.size.width <= tip.view.width - Margin
            /\ tip.top + tip.size.height <= tip.view.height - Margin

\* auto-top-center with no room above and room below gave bottom-center,
\* while a perpendicular candidate fits too.
C22_Witness ==
    /\ Positioned
    /\ tip.placement = Joined(Word.auto, "-", Joined(Word.top, "-", Word.center))
    /\ tip.applied = Joined(Word.bottom, "-", Word.center)
    /\ \E c \in FittingCandidates(Word.top, Word.center) : c.side \in {Word.left, Word.right}

\* C23. In auto mode, when no candidate fits the viewport margin, the
\* placement and the position used are those of the last candidate of the
\* fallback order (the second perpendicular side at center).
C23_LastCandidateUsed ==
    \A sd \in Sides, al \in Aligns :
        (/\ Positioned
         /\ tip.placement = Joined(Word.auto, "-", Joined(sd, "-", al))
         /\ FittingCandidates(sd, al) = {}) =>
            LET lastc == Placement(IF sd \in {Word.top, Word.bottom} THEN Word.right ELSE Word.bottom,
                                   Word.center, TRUE)
            IN /\ tip.applied = Joined(lastc.side, "-", lastc.align)
               /\ [left |-> tip.left, top |-> tip.top]
                    = ComputePosition(tip.anchor, tip.size, lastc, tip.offset)

\* C24. With auto = false the position is the one of the fixed formulas for
\* the requested side and alignment, and the placement applied is the
\* requested one whether or not the box fits the viewport.
C24_FixedFormulas ==
    \A sd \in Sides, al \in Aligns :
        (Positioned /\ tip.placement = Joined(sd, "-", al)) =>
            LET a == tip.anchor
                w == tip.size.width
                h == tip.size.height
                vertical == sd \in {Word.top, Word.bottom}
                main == IF vertical THEN tip.top ELSE tip.left
                cross == IF vertical THEN tip.left ELSE tip.top
                lo == IF vertical THEN a.left ELSE a.top
                hi == IF vertical THEN a.right ELSE a.bottom
                asize == IF vertical THEN a.width ELSE a.height
                tsize == IF vertical THEN w ELSE h
            IN /\ tip.applied = Joined(sd, "-", al)
               /\ sd = Word.top => main = a.top - h - tip.offset
               /\ sd = Word.bottom => main = a.bottom + tip.offset
               /\ sd = Word.left => main = a.left - w - tip.offset
               /\ sd = Word.right => main = a.right + tip.offset
               /\ al = Word.start => cross = lo
               /\ al = Word.end => cross = hi - tsize
               /\ al = Word.center => /\ 2 * cross - 1 <= 2 * lo + (asize - tsize)
                                   /\ 2 * lo + (asize - tsize) <= 2 * cross + 1

\* A tip placed 'left-end', not in auto mode, was rendered outside the
\* viewport margin.
C24_Witness ==
    /\ Positioned
    /\ tip.placement = Joined(Word.left, "-", Word.end)
    /\ tip.size.height # tip.anchor.height
    /\ tip.left < Margin

\* C25. The arrow's offset along the cross axis is at least 8 and at most the
\* cross-axis size of the tip minus 8.
C25_ArrowInsideTip ==
    Positioned =>
        LET cross == IF tip.side \in {Word.top, Word.bottom} THEN tip.size.width
                     ELSE tip.size.height
        IN ArrowInset <= tip.arrow /\ tip.arrow <= cross - ArrowInset

\* --------------------------------------------------------- L.interpolate
\* Bounds: the templates interpolated are made of up to MaxSegs segments.
MaxSegs == 3

\* The values of the script: a string, an object (a function from its keys),
\* an array (a sequence), null, undefined.
Str(c) == [t |-> "str", v |-> c]
Obj(f) == [t |-> "obj", v |-> f]
Undef == [t |-> "undef", v |-> <<>>]

\* \w of a regular expression, and \s (the space).
WordChars ==
    {"a", "b", "c", "d", "e", "f", "g", "h", "i", "j", "k", "l", "m", "n", "o", "p", "q",
     "r", "s", "t", "u", "v", "w", "x", "y", "z", "A", "B", "C", "D", "E", "F", "G", "H",
     "I", "J", "K", "L", "M", "N", "O", "P", "Q", "R", "S", "T", "U", "V", "W", "X", "Y",
     "Z", "0", "1", "2", "3", "4", "5", "6", "7", "8", "9", "_"}
Digits == <<"0", "1", "2", "3", "4", "5", "6", "7", "8", "9">>

RECURSIVE RunEnd(_, _, _)
\* The index of the last character of the longest run of characters of the
\* set cls that starts at k (k - 1 for an empty run).
RunEnd(str, k, cls) ==
    IF k <= Len(str) /\ str[k] \in cls THEN RunEnd(str, k + 1, cls) ELSE k - 1

RECURSIVE NumberOf(_, _)
\* Number(idx) of a string of digits (n is the value read so far).
NumberOf(ds, n) ==
    IF ds = <<>> THEN n
    ELSE NumberOf(Tail(ds), 10 * n + (CHOOSE d \in DOMAIN Digits : Digits[d] = Head(ds)) - 1)

\* pathToTokens(path): the matches of /\[(\d+)\]|([^[.\]]+)/g from k on; a
\* token is an index [n] or a key.
PathToTokens(path) ==
    LET RECURSIVE From(_)
        From(k) ==
            IF k > Len(path) THEN <<>>
            ELSE LET d == RunEnd(path, k + 1, Range(Digits))
                     e == RunEnd(path, k, (WordChars \cup {" ", "-", "{", "}", "\"", "#", ":"})
                                           \ {"[", ".", "]"})
                 IN IF path[k] = "[" /\ d > k /\ d < Len(path) /\ path[d + 1] = "]"
                    THEN <<[idx |-> TRUE, n |-> NumberOf(SubSeq(path, k + 1, d), 0),
                            key |-> <<>>]>> \o From(d + 2)
                    ELSE IF e >= k
                    THEN <<[idx |-> FALSE, n |-> 0, key |-> SubSeq(path, k, e)]>> \o From(e + 1)
                    ELSE From(k + 1)
    IN From(1)

\* cur[t]: an own property of an object, an element of an array, a character
\* of a string; undefined otherwise.
Property(cur, tok) ==
    CASE cur.t = "obj" ->
            LET key == IF tok.idx THEN <<Digits[tok.n + 1]>> ELSE tok.key
            IN IF key \in DOMAIN cur.v THEN cur.v[key] ELSE Undef
      [] cur.t = "arr" ->
            IF tok.idx /\ tok.n + 1 \in DOMAIN cur.v THEN cur.v[tok.n + 1] ELSE Undef
      [] cur.t = "str" ->
            IF tok.idx /\ tok.n + 1 \in DOMAIN cur.v THEN Str(<<cur.v[tok.n + 1]>>) ELSE Undef
      [] OTHER -> Undef

\* getByPath(obj, path): the loop over the tokens, with def undefined.
GetByPath(obj, path) ==
    LET RECURSIVE From(_, _)
        From(cur, tokens) ==
            IF tokens = <<>> THEN cur
            ELSE IF cur.t \in {"null", "undef"} THEN Undef
            ELSE From(Property(cur, Head(tokens)), Tail(tokens))
    IN From(obj, PathToTokens(path))

RECURSIVE StringOf(_)
RECURSIVE JoinValues(_)
\* String(v)
StringOf(v) ==
    CASE v.t = "str" -> v.v
      [] v.t = "obj" ->
            <<"[", "o", "b", "j", "e", "c", "t", " ", "O", "b", "j", "e", "c", "t", "]">>
      [] v.t = "arr" -> JoinValues(v.v)
      [] v.t = "null" -> <<"n", "u", "l", "l">>
      [] OTHER -> <<"u", "n", "d", "e", "f", "i", "n", "e", "d">>
\* Array.prototype.join: null and undefined elements give the empty string.
JoinValues(q) ==
    IF q = <<>> THEN <<>>
    ELSE (IF Head(q).t \in {"null", "undef"} THEN <<>> ELSE StringOf(Head(q)))
         \o (IF Len(q) > 1 THEN <<",">> \o JoinValues(Tail(q)) ELSE <<>>)

\* The mutant of InterpValue: a missing value is not replaced by ''.
InterpValueAlwaysString(v) == StringOf(v)

\* v == null ? '' : String(v)
InterpValue(v) == IF v.t \in {"null", "undef"} THEN <<>> ELSE StringOf(v)

\* A match of /\{\{\s*([\w.[\]0-9]+)\s*\}\}/ that starts at k: the index of its
\* last character and the path it captured; last = 0 for no match.
PlaceholderAt(tpl, k) ==
    LET open == k + 1 <= Len(tpl) /\ tpl[k] = "{" /\ tpl[k + 1] = "{"
        p1 == RunEnd(tpl, k + 2, {" "}) + 1
        p2 == RunEnd(tpl, p1, WordChars \cup {".", "[", "]"})
        c1 == RunEnd(tpl, p2 + 1, {" "}) + 1
    IN IF open /\ p2 >= p1 /\ c1 + 1 <= Len(tpl) /\ tpl[c1] = "}" /\ tpl[c1 + 1] = "}"
       THEN [last |-> c1 + 1, path |-> SubSeq(tpl, p1, p2)]
       ELSE [last |-> 0, path |-> <<>>]

\* L.interpolate(tpl, data): tpl.replace(re, (_, p) => ...), from the k-th
\* character on.
Interpolate(tpl, data) ==
    LET RECURSIVE From(_)
        From(k) ==
            IF k > Len(tpl) THEN <<>>
            ELSE LET m == PlaceholderAt(tpl, k)
                 IN IF m.last > 0
                    THEN InterpValue(GetByPath(data, m.path)) \o From(m.last + 1)
                    ELSE <<tpl[k]>> \o From(k + 1)
    IN From(1)

\* A step of the library that leaves the program alone.
LibStep(E, I, op, err) ==
    /\ errors' = E
    /\ io' = I
    /\ last' = Call(op, err)
    /\ UNCHANGED <<parent, marker, REG, insts, res, trace, tip, page>>

\* The context of the interpolations:
\*   { a: 'A', b: { c: 'C' }, n: null, l: ['L'] }
Context ==
    Obj((<<"a">> :> Str(<<"A">>)) @@ (<<"b">> :> Obj(<<"c">> :> Str(<<"C">>)))
        @@ (<<"n">> :> [t |-> "null", v |-> <<>>])
        @@ (<<"l">> :> [t |-> "arr", v |-> <<Str(<<"L">>)>>]))

\* The paths of the placeholders, each with the string the context holds at
\* it: '' where the path is missing (undefined) or null.
PathSpecs ==
    <<[path |-> <<"a">>, value |-> <<"A">>],
      [path |-> <<"b", ".", "c">>, value |-> <<"C">>],
      [path |-> <<"l", "[", "0", "]">>, value |-> <<"L">>],
      [path |-> <<"z">>, value |-> <<>>],
      [path |-> <<"n">>, value |-> <<>>],
      [path |-> <<"z", ".", "c">>, value |-> <<>>],
      [path |-> <<"b", ".", "z">>, value |-> <<>>]>>

RECURSIVE TemplateOf(_)
\* The template the segments spell.
TemplateOf(segs) ==
    LET g == Head(segs)
        pad == IF g.pad THEN <<" ">> ELSE <<>>
    IN IF segs = <<>> THEN <<>>
       ELSE (IF g.lit THEN g.text
             ELSE <<"{", "{">> \o pad \o PathSpecs[g.p].path \o pad \o <<"}", "}">>)
            \o TemplateOf(Tail(segs))

\* The templates of up to MaxSegs segments. A segment is text, or the
\* placeholder of a path, written {{path}} or {{ path }}; none of the text,
\* alone or put together, reads as a placeholder.
Templates ==
    LET Literals == {<<"-", "x", "-">>, <<" ">>, <<"{">>, <<"}">>}
        Segments == [lit : {TRUE}, text : Literals, p : {0}, pad : {FALSE}]
                    \cup [lit : {FALSE}, text : {<<>>}, p : DOMAIN PathSpecs, pad : BOOLEAN]
    IN UNION {[1..n -> Segments] : n \in 0..MaxSegs}

\* L.interpolate(tpl, Context), for the template the caller holds
InterpolateCall ==
    /\ io.op = "template"
    /\ LibStep(errors,
               [io EXCEPT !.op = "interpolate", !.ret = Interpolate(io.tpl, Context)],
               "interpolate", NoErr)

InitLib ==
    /\ parent = [e \in Elems |-> e - 1]
    /\ marker = [e \in Elems |-> NoMarker]
    /\ REG = <<>>
    /\ insts = <<>>
    /\ res = <<>>
    /\ trace = <<>>
    /\ last = NoCall
    /\ LibAtLoad

\* Every template of the bound, held by a caller.
InitInterpolate ==
    /\ parent = [e \in Elems |-> e - 1]
    /\ marker = [e \in Elems |-> NoMarker]
    /\ REG = <<>>
    /\ insts = <<>>
    /\ res = <<>>
    /\ trace = <<>>
    /\ last = NoCall
    /\ errors = ErrorsAtLoad
    /\ tip = [open |-> FALSE]
    /\ PageAtLoad
    /\ io \in {[op |-> "template", segs |-> segs, tpl |-> TemplateOf(segs), ret |-> <<>>] :
                  segs \in Templates}

SpecInterpolate == InitInterpolate /\ [][InterpolateCall]_vars

RECURSIVE ExpectedText(_)
\* The text a template should give: its segments in order, each placeholder
\* replaced by the string the context holds at its path.
ExpectedText(segs) ==
    IF segs = <<>> THEN <<>>
    ELSE (IF Head(segs).lit THEN Head(segs).text ELSE PathSpecs[Head(segs).p].value)
         \o ExpectedText(Tail(segs))

\* C28. Interpolating a template replaces every {{path}} placeholder by the
\* string found at that dotted/bracket path in the context, a missing
\* (undefined or null) one by the empty string, and leaves all other text as
\* it is.
C28_InterpolateReplaces ==
    io.op = "interpolate" => io.ret = ExpectedText(io.segs)

\* A template of text, a placeholder whose path is missing and a placeholder
\* with a value was interpolated.
C28_Witness ==
    /\ io.op = "interpolate"
    /\ Len(io.segs) = 3
    /\ io.segs[1].lit
    /\ ~io.segs[2].lit /\ PathSpecs[io.segs[2].p].value = <<>>
    /\ ~io.segs[3].lit /\ PathSpecs[io.segs[3].p].value # <<>>
    /\ io.ret # io.tpl

\* ------------------------------------------- L.registerErrors and L.assert
RECURSIVE Trim(_)
\* str.trim()
Trim(str) ==
    IF str # <<>> /\ Head(str) = " " THEN Trim(Tail(str))
    ELSE IF str # <<>> /\ str[Len(str)] = " " THEN Trim(SubSeq(str, 1, Len(str) - 1))
    ELSE str

\* obj[key] as a condition: the property exists and is not the empty string.
Truthy(obj, key) == key \in DOMAIN obj /\ obj[key] # <<>>

RECURSIVE StoreFrom(_, _, _, _, _)
\* for (const k of Object.keys(map)) { ... }: from the p-th key on; map is the
\* sequence of its <<key, message>> pairs.
StoreFrom(E, ns, map, p, override) ==
    IF p > Len(map) THEN [e |-> E, err |-> NoErr]
    ELSE IF ~override /\ Truthy(E.byNs[ns], map[p][1]) THEN [e |-> E, err |-> "Error"]
    ELSE StoreFrom([E EXCEPT !.byNs[ns] = (map[p][1] :> map[p][2]) @@ @],
                   ns, map, p + 1, override)

s_message == <<"m", "e", "s", "s", "a", "g", "e">>
t_message == <<"{", "{">> \o s_message \o <<"}", "}">>

\* The template L.assert resolves for a code.
ResolveTemplate(E, code) ==
    LET ns == Split(code, ".")[1]
        c == Slice(code, Len(ns) + 1)
        scoped == IF code # <<>> /\ (\E k \in DOMAIN code : code[k] = ".")
                     /\ ns \in DOMAIN E.byNs /\ Truthy(E.byNs[ns], c)
                  THEN E.byNs[ns][c] ELSE <<>>
    IN IF scoped # <<>> THEN scoped
       ELSE IF Truthy(E.global, code) THEN E.global[code]
       ELSE t_message

\* L.assert(cond, code, dataOrMessage): what it throws, if it throws.
AssertOutcome(E, cond, code, dom) ==
    IF cond THEN [thrown |-> FALSE, tpl |-> <<>>, msg |-> <<>>, code |-> <<>>]
    ELSE LET tpl == ResolveTemplate(E, code)
             text == IF dom.t = "str" /\ dom.v # <<>> THEN dom.v
                     ELSE IF code # <<>> THEN code
                     ELSE <<"A", "s", "s", "e", "r", "t", "i", "o", "n", " ",
                            "f", "a", "i", "l", "e", "d">>
             data == IF dom.t = "obj" THEN dom ELSE Obj(s_message :> Str(text))
         IN [thrown |-> TRUE, tpl |-> tpl, msg |-> Interpolate(tpl, data),
             code |-> IF code # <<>> THEN code
                      ELSE <<"E", "_", "A", "S", "S", "E", "R", "T", "_",
                             "F", "A", "I", "L", "E", "D">>]

\* The third argument of L.assert.
DataInputs == <<Undef, Str(<<"M">>), Obj(<<"i", "d">> :> Str(<<"7">>))>>

\* L.registerErrors(namespace, map, { override }) by a component; the store
\* of the namespace is L._errorsByNs[ns] || (L._errorsByNs[ns] = Object.create(null)).
RegisterErrors(namespace, map, override) ==
    LET ns == Trim(namespace)
        E == IF ns \in DOMAIN errors.byNs THEN errors
             ELSE [errors EXCEPT !.byNs = (ns :> <<>>) @@ @]
        r == IF namespace = <<>> THEN [e |-> errors, err |-> "Error"]
             ELSE StoreFrom(E, ns, map, 1, override)
    IN LibStep(r.e,
               [op |-> "registerErrors", ns |-> namespace, map |-> map,
                override |-> override, thrown |-> r.err # NoErr],
               "registerErrors", r.err)

\* L.errors[code] = tpl by a script of the page: the global default table is a
\* plain property of L.
SetDefault(code, tpl) ==
    /\ ~(code \in DOMAIN errors.global /\ errors.global[code] = tpl)
    /\ LibStep([errors EXCEPT !.global = (code :> tpl) @@ @],
               [op |-> "setDefault", code |-> code], "setDefault", NoErr)

\* L.assert(cond, code, DataInputs[d])
AssertCall(cond, code, d) ==
    LET r == AssertOutcome(errors, cond, code, DataInputs[d])
    IN LibStep(errors,
               [op |-> "assert", cond |-> cond, code |-> code, data |-> d,
                thrown |-> r.thrown, tpl |-> r.tpl, msg |-> r.msg, ecode |-> r.code],
               "assert", IF r.thrown THEN "Error" ELSE NoErr)

\* The calls: namespaces (one to trim, one empty), maps of one or two keys
\* with their messages (one empty), codes.
NextErrors ==
    LET Messages == {<<>>, <<"n">>, <<"m">>}
        Maps == {<<<<k, m>>>> : k \in {<<"k">>, <<"j">>}, m \in Messages}
                \cup {<<<<(<<"j">>), m1>>, <<(<<"k">>), m2>>>> : m1, m2 \in Messages \ {<<>>}}
        Codes == {<<"N", ".", "k">>, <<"N", ".", "j">>, <<"X">>,
                  <<"E", "_", "N", "O", "_", "R", "O", "O", "T">>,
                  <<"L", "i", "g", "h", "t", "B", "a", "s", "e", ".", "C", "O", "N", "F",
                    "L", "I", "C", "T", "_", "O", "W", "N", "E", "R">>}
    IN \/ \E ns \in {<<"N">>, <<" ", "N">>, <<>>}, map \in Maps, ov \in BOOLEAN :
             RegisterErrors(ns, map, ov)
       \/ \E m \in {<<>>, <<"g">>} : SetDefault(<<"N", ".", "k">>, m)
       \/ \E cond \in BOOLEAN, code \in Codes, d \in DOMAIN DataInputs :
             AssertCall(cond, code, d)

SpecErrors == InitLib /\ [][NextErrors]_vars

\* The template the claimed order resolves for a code: the one registered
\* under its namespace and key, else the entry of the global table, else
\* {{message}}.
ClaimedTemplate(code) ==
    LET scoped == {<<ns, k>> \in UNION {{<<n, key>> : key \in DOMAIN errors.byNs[n]} :
                                         n \in DOMAIN errors.byNs} :
                      code = Joined(ns, ".", k)}
    IN IF scoped # {}
       THEN LET nk == CHOOSE x \in scoped : TRUE IN errors.byNs[nk[1]][nk[2]]
       ELSE IF code \in DOMAIN errors.global THEN errors.global[code]
       ELSE t_message

\* C26. L.assert throws nothing when the condition is truthy; when it is
\* falsy, the template is the one registered under the code's namespace and
\* key, otherwise the global table's entry for the code, otherwise the
\* literal {{message}}.
C26_TemplateResolution ==
    io.op = "assert" =>
        IF io.cond THEN ~io.thrown
        ELSE /\ io.thrown
             /\ io.tpl = ClaimedTemplate(io.code)
             /\ io.msg = Interpolate(ClaimedTemplate(io.code),
                                     IF DataInputs[io.data].t = "obj" THEN DataInputs[io.data]
                                     ELSE Obj(s_message :> Str(IF DataInputs[io.data].t = "str"
                                                               THEN DataInputs[io.data].v
                                                               ELSE io.code)))

\* C27. registerErrors(namespace, map) without override fails when map holds
\* a key already registered in the namespace, and the message stored under
\* such a key stays; with override the call succeeds and the keys of map hold
\* the messages of map.
C27_ReRegistration ==
    [][(io'.op = "registerErrors" /\ io'.ns # <<>>
        /\ RegisterErrors(io'.ns, io'.map, io'.override)) =>
          LET ns == Trim(io'.ns)
              store == IF ns \in DOMAIN errors.byNs THEN errors.byNs[ns] ELSE <<>>
              keys == {io'.map[p][1] : p \in DOMAIN io'.map}
          IN IF io'.override
             THEN /\ ~io'.thrown
                  /\ \A p \in DOMAIN io'.map : errors'.byNs[ns][io'.map[p][1]] = io'.map[p][2]
             ELSE (keys \cap DOMAIN store # {}) =>
                     /\ io'.thrown
                     /\ \A k \in keys \cap DOMAIN store : errors'.byNs[ns][k] = store[k]]_vars

\* C36. A registerErrors call that fails on a key conflict leaves the
\* message table of the namespace as it was before the call.
C36_RejectedMapStoresNothing ==
    [][(io'.op = "registerErrors" /\ io'.thrown /\ io'.ns # <<>>
        /\ RegisterErrors(io'.ns, io'.map, io'.override)) =>
          errors'.byNs[Trim(io'.ns)] = errors.byNs[Trim(io'.ns)]]_vars


\* ------------------------------------- L.on / L.off: bookkeeping and host
\* A function value: a handler of the caller (name "f", "g"), or a closure the
\* library makes, told apart by the number n: a wrapper of L.on holds the
\* handler `of` and the selector `sel`, a closure of a tip is `of` that tip.
Fn(name, of, sel, n) == [name |-> name, of |-> of, sel |-> sel, n |-> n]
Handler(name) == Fn(name, "", NoSelector, 0)
NoFn == Handler("")

Bool(b) == [t |-> "bool", v |-> b]

\* What the host keeps for addEventListener(type, fn, options) on target, and
\* looks for in removeEventListener(type, fn, options): the capture flag is
\* options itself when a boolean, the truth of its member `capture` when an
\* object, false when options is omitted.
Listener(target, type, fn, options) ==
    [target |-> target, type |-> type, fn |-> fn,
     capture |-> CASE options.t = "bool" -> options.v
                   [] options.t = "obj" ->
                        "capture" \in DOMAIN options.v /\ options.v["capture"]
                   [] OTHER -> FALSE]

\* The mutant of RecCapture: the record does not keep the capture flag.
RecCaptureNone(opts) == FALSE

\* const capture = (opts === true) || (isObj(opts) && !!opts.capture)
RecCapture(opts) ==
    \/ opts = Bool(TRUE)
    \/ opts.t = "obj" /\ "capture" \in DOMAIN opts.v /\ opts.v["capture"]

\* L.on(root, type, selector, handler, opts): selector is NoSelector for
\* on(root, type, handler, opts). The key type + '::' + selector is the pair
\* (no type and no selector of the model holds '::').
L_on(H, E, root, type, selector, handler, opts) ==
    LET used == {E[p].wrapped.n : p \in DOMAIN E} \cup {l.fn.n : l \in H}
        n == CHOOSE k \in 1..(Cardinality(used) + 1) : k \notin used
        finalHandler == IF selector # NoSelector
                        THEN Fn("wrapped", handler.name, selector, n) ELSE handler
    IN [host |-> H \cup {Listener(root, type, finalHandler,
                                  IF opts = Undef \/ opts = Bool(FALSE)
                                  THEN Bool(FALSE) ELSE opts)},
        events |-> Append(E, [root |-> root, key |-> <<type, selector>>,
                              wrapped |-> finalHandler, orig |-> handler,
                              capture |-> RecCapture(opts)])]

\* L.off(root, type, selector, handler): handler is NoFn when omitted, type is
\* "" when omitted (every subscription of root is removed).
L_off(H, E, root, type, selector, handler) ==
    LET gone == {p \in DOMAIN E :
                    /\ E[p].root = root
                    /\ \/ type = ""
                       \/ /\ E[p].key = <<type, selector>>
                          /\ \/ handler = NoFn
                             \/ E[p].orig = handler
                             \/ E[p].wrapped = handler}
        kept == SeqOfSet(DOMAIN E \ gone)
    IN [host |-> H \ {Listener(root, IF type = "" THEN E[p].key[1] ELSE type,
                               E[p].wrapped, Bool(E[p].capture)) : p \in gone},
        events |-> [q \in 1..Len(kept) |-> E[kept[q]]]]

\* A call that changes the page: the host's registrations, the records of L,
\* the tips and the scrollbar.
PageStep(P, I, op) ==
    /\ host' = P.host
    /\ events' = P.events
    /\ tips' = P.tips
    /\ sb' = P.sb
    /\ io' = I
    /\ last' = Call(op, NoErr)
    /\ UNCHANGED <<parent, marker, REG, insts, res, trace, errors, tip>>

Page == [host |-> host, events |-> events, tips |-> tips, sb |-> sb]

\* The subscriptions of the model: to two roots, of two types, direct or
\* delegated, of two handlers, with every form of the options.
NextEvents ==
    \/ \E root \in {Body, 1}, type \in {"click", "input"}, sel \in {NoSelector, "A"},
          h \in {Handler("f"), Handler("g")},
          opts \in {Undef, Bool(FALSE), Bool(TRUE), Obj("capture" :> TRUE),
                    Obj("capture" :> FALSE), Obj("passive" :> TRUE)} :
          /\ Len(events) < MaxRecs
          /\ PageStep(L_on(host, events, root, type, sel, h, opts) @@ Page,
                      [op |-> "on"], "on")
    \/ \E root \in {Body, 1}, type \in {"click", "input", ""}, sel \in {NoSelector, "A"},
          h \in {Handler("f"), Handler("g"), NoFn} :
          PageStep(L_off(host, events, root, type, sel, h) @@ Page,
                   [op |-> "off", root |-> root, type |-> type, sel |-> sel, h |-> h,
                    before |-> events],
                   "off")
    \* The host dispatches an event of a type at a descendant of root that
    \* every selector matches: the listeners of root for the type run, a
    \* wrapper calls its handler.
    \/ \E root \in {Body, 1}, type \in {"click", "input"} :
          PageStep(Page,
                   [op |-> "dispatch", root |-> root, type |-> type,
                    invoked |-> {IF l.fn.name = "wrapped" THEN <<l.fn.of, l.fn.sel>>
                                 ELSE <<l.fn.name, NoSelector>> :
                                    l \in {m \in host : m.target = root /\ m.type = type}}],
                   "dispatch")

SpecEvents == InitLib /\ [][NextEvents]_vars

\* The records L keeps for the subscription (root, type, selector, handler).
RecordsOf(E, root, type, sel, h) ==
    {p \in DOMAIN E : E[p].root = root /\ E[p].key = <<type, sel>> /\ E[p].orig = h}

\* C37. After L.on(root, type, [selector,] handler, options) and then
\* L.off(root, type, [selector,] handler), L holds no record of the
\* subscription and the host holds no listener of it, whatever the options
\* were, so that an event of the type invokes the handler only through
\* subscriptions L still records; L.off for a subscription that was never
\* made changes neither the records nor the listeners.
C37_OffUndoesOn ==
    [][/\ (io'.op = "off" /\ io'.type # "" /\ io'.h # NoFn) =>
            /\ RecordsOf(events', io'.root, io'.type, io'.sel, io'.h) = {}
            /\ \A l \in host' :
                 ~(/\ l.target = io'.root
                   /\ l.type = io'.type
                   /\ l.fn = IF io'.sel = NoSelector THEN io'.h
                             ELSE Fn("wrapped", io'.h.name, io'.sel, l.fn.n))
            /\ RecordsOf(events, io'.root, io'.type, io'.sel, io'.h) = {} =>
                 (events' = events /\ host' = host)
       /\ io'.op = "dispatch" =>
            \A c \in io'.invoked :
                RecordsOf(events, io'.root, io'.type, c[2], Handler(c[1])) # {}]_vars

\* A delegated subscription made in the capture phase has been removed by
\* L.off: the record and the listener of another subscription remain.
C37_Witness ==
    /\ io.op = "off" /\ io.h = Handler("f") /\ io.sel = "A"
    /\ \E p \in RecordsOf(io.before, io.root, io.type, io.sel, io.h) : io.before[p].capture
    /\ Len(events) = 1
    /\ events[1].root = io.root
    /\ events[1].orig = Handler("g")
    /\ Cardinality(host) = 1


\* ------------------------------------------- LightTip: attach, show, hide
\* The options of a tip the model varies; the callbacks onShow, onShown and
\* onHide are null, onHidden is null (NoCb) or calls show() of a tip; the
\* option scrollbar is false and the anchor has no scrollable ancestor.
TipDefaults ==
    [closeOnBodyClick |-> TRUE, onScroll |-> "hide", onHidden |-> NoCb]

\* The closure `name` made by tip i in its n-th way (n tells the closures of
\* two calls of show() apart).
TipFn(name, i, n) == Fn(name, i, NoSelector, n)

\* hide(): the listeners are removed through the functions the tip holds.
\* show(): every other tip of REG is hidden first; the tip whose anchor is
\* null (destroyed) throws at anchor.getBoundingClientRect().
\* hideAll(t => t !== this): over Array.from(REG), the tips in `list`.
RECURSIVE Tip_hide(_, _), Tip_show(_, _), Tip_hideAll(_, _, _)
Tip_hide(P, i) ==
    LET t == P.tips[i]
        offs == {Listener(Window, "scroll", t.scrollUnsubs[q], Undef) :
                    q \in DOMAIN t.scrollUnsubs}
                \cup (IF t.bodyClickOff # NoFn
                      THEN {Listener(Document, "mousedown", t.bodyClickOff, Bool(TRUE)),
                            Listener(Document, "touchstart", t.bodyClickOff,
                                     Obj("capture" :> TRUE))}
                      ELSE {})
                \cup (IF t.resizeOff # NoFn
                      THEN {Listener(Window, "resize", t.resizeOff, Undef)} ELSE {})
                \cup (IF t.keyOff # NoFn
                      THEN {Listener(Document, "keydown", t.keyOff, Bool(TRUE))} ELSE {})
        P1 == [P EXCEPT !.host = @ \ offs,
                        !.tips[i].open = FALSE,
                        !.tips[i].scrollUnsubs = <<>>,
                        !.tips[i].bodyClickOff = NoFn,
                        !.tips[i].resizeOff = NoFn,
                        !.tips[i].keyOff = NoFn]
    IN IF ~t.open THEN P
       ELSE IF t.opts.onHidden = NoCb THEN P1
       ELSE Tip_show(P1, t.opts.onHidden.j)

Tip_hideAll(P, i, list) ==
    IF list = <<>> \/ P.thrown THEN P
    ELSE Tip_hideAll(IF Head(list) # i THEN Tip_hide(P, Head(list)) ELSE P, i, Tail(list))

Tip_show(P, i) ==
    LET P1 == Tip_hideAll(P, i, SeqOfSet({j \in DOMAIN P.tips : P.tips[j].reg}))
        t == P1.tips[i]
        used == {l.fn.n : l \in P1.host}
        n == CHOOSE k \in 1..(Cardinality(used) + 1) : k \notin used
        onBody == IF t.opts.closeOnBodyClick THEN TipFn("onBody", i, n) ELSE NoFn
        wrapped == IF t.opts.onScroll = "none" THEN <<>> ELSE <<TipFn("onScroll", i, n)>>
    IN IF P.tips[i].open THEN P
       ELSE IF P1.thrown THEN P1
       ELSE IF t.anchor = NoElem THEN [P1 EXCEPT !.thrown = TRUE]
       ELSE [P1 EXCEPT
               !.tips[i].open = TRUE,
               !.tips[i].keyOff = TipFn("onKey", i, n),
               !.tips[i].bodyClickOff = onBody,
               !.tips[i].resizeOff = TipFn("onResize", i, n),
               !.tips[i].scrollUnsubs = wrapped,
               !.host = @ \cup {Listener(Document, "keydown", TipFn("onKey", i, n), Bool(TRUE)),
                                Listener(Window, "resize", TipFn("onResize", i, n),
                                         Obj("passive" :> TRUE))}
                          \cup (IF onBody = NoFn THEN {}
                                ELSE {Listener(Document, "mousedown", onBody, Bool(TRUE)),
                                      Listener(Document, "touchstart", onBody,
                                               Obj(("passive" :> TRUE) @@ ("capture" :> TRUE)))})
                          \cup {Listener(Window, "scroll", wrapped[q], Obj("passive" :> TRUE)) :
                                   q \in DOMAIN wrapped}]

\* destroy()
Tip_destroy(P, i) ==
    LET P1 == Tip_hide(P, i)
    IN IF P1.thrown THEN P1
       ELSE [P1 EXCEPT !.tips[i].reg = FALSE,
                       !.tips[i].anchor = NoElem,
                       !.host = @ \ {Listener(Body, "MutationObserver", TipFn("mo", i, 0), Undef)}]

\* LightTip.attach(el, options), and updateOptions(options) of the tip that
\* el has already: options holds the members the caller gives.
Tip_attach(P, el, options) ==
    LET has == {j \in DOMAIN P.tips : P.tips[j].reg /\ P.tips[j].anchor = el}
        i == Len(P.tips) + 1
    IN IF has # {}
       THEN [P EXCEPT !.tips[CHOOSE j \in has : TRUE].opts = options @@ @]
       ELSE [P EXCEPT !.tips = Append(@, [anchor |-> el, reg |-> TRUE, open |-> FALSE,
                                          opts |-> options @@ TipDefaults,
                                          keyOff |-> NoFn, bodyClickOff |-> NoFn,
                                          resizeOff |-> NoFn, scrollUnsubs |-> <<>>]),
                      !.host = @ \cup {Listener(Body, "MutationObserver",
                                                TipFn("mo", i, 0), Undef)}]

\* The calls of the model: attach and updateOptions with no option, with
\* closeOnBodyClick and onScroll turned off, or with an onHidden that shows a
\* tip; show, hide, toggle, update and destroy of every tip made.
NextTips ==
    LET P == Page @@ [thrown |-> FALSE]
        Do(Q, op, i) == PageStep(Q, [op |-> op, i |-> i, thrown |-> Q.thrown], op)
    IN \/ \E el \in 1..MaxTips,
             options \in {<<>>, [closeOnBodyClick |-> FALSE, onScroll |-> "none"]}
                         \cup {[onHidden |-> Cb("show", j)] : j \in 1..MaxTips} :
             /\ \/ Len(tips) < MaxTips
                \/ \E j \in DOMAIN tips : tips[j].reg /\ tips[j].anchor = el
             /\ \A j \in DOMAIN options : j = "onHidden" => options[j].j \in DOMAIN tips
             /\ Do(Tip_attach(P, el, options), "attach", el)
       \/ \E i \in DOMAIN tips :
             /\ Cardinality(host) <= MaxListeners
             /\ Do(Tip_show(P, i), "show", i)
       \/ \E i \in DOMAIN tips : Do(Tip_hide(P, i), "hide", i)
       \/ \E i \in DOMAIN tips :
             /\ Cardinality(host) <= MaxListeners
             /\ Do(IF tips[i].open THEN Tip_hide(P, i) ELSE Tip_show(P, i), "toggle", i)
       \/ \E i \in DOMAIN tips : Do(P, "update", i)
       \/ \E i \in DOMAIN tips : Do(Tip_destroy(P, i), "destroy", i)

SpecTips == InitLib /\ [][NextTips]_vars

\* C38. Among the tips made by LightTip.attach and not destroyed, at most one
\* is open in every reachable state.
C38_AtMostOneOpen ==
    Cardinality({i \in DOMAIN tips : tips[i].reg /\ tips[i].open}) <= 1

\* The listeners tip i has registered for keydown, mousedown, touchstart,
\* resize and scroll.
TipListeners(i) ==
    {l \in host : l.fn.of = i /\ l.fn.name \in {"onKey", "onBody", "onResize", "onScroll"}}

\* C39. A tip has its keydown, mousedown/touchstart, resize and scroll
\* listeners registered exactly while it is open: none when it is closed
\* (after hide() and destroy()), the listeners of one call of show() when it
\* is open.
C39_SubscribedWhileOpen ==
    \A i \in DOMAIN tips :
        /\ ~tips[i].open => TipListeners(i) = {}
        /\ tips[i].open =>
              /\ \E l \in TipListeners(i) : l.type = "keydown"
              /\ Cardinality({l.fn.n : l \in TipListeners(i)}) = 1


\* ------------------------------------------------------- LightScrollbar
\* The tracks and the grips _initDOM makes, as targets of listeners.
Part == [trackX |-> -4, trackY |-> -5, gripX |-> -6, gripY |-> -7]

\* A closure the scrollbar makes; n tells the closures of two drags apart.
SbFn(name, n) == Fn(name, 0, NoSelector, n)

RECURSIVE OnEach(_, _), OffEach(_, _)
\* L.on(root, type, handler, opts) for each <<root, type, handler, opts>>
OnEach(P, calls) ==
    IF calls = <<>> THEN P
    ELSE LET c == Head(calls)
         IN OnEach(L_on(P.host, P.events, c[1], c[2], NoSelector, c[3], c[4]) @@ P,
                   Tail(calls))

\* L.off(root, type, handler) for each <<root, type, handler>>
OffEach(P, calls) ==
    IF calls = <<>> THEN P
    ELSE LET c == Head(calls)
         IN OffEach(L_off(P.host, P.events, c[1], c[2], NoSelector, c[3]) @@ P,
                    Tail(calls))

\* The subscriptions _bind makes with L.on, as _cleanup removes them.
BoundWithOn(h) ==
    <<<<h, "scroll", SbFn("onScroll", 0), Obj("passive" :> TRUE)>>,
      <<Part.gripX, "mousedown", SbFn("startDragX", 0), Undef>>,
      <<Part.gripY, "mousedown", SbFn("startDragY", 0), Undef>>,
      <<Part.gripX, "touchstart", SbFn("startDragX", 0), Obj("passive" :> FALSE)>>,
      <<Part.gripY, "touchstart", SbFn("startDragY", 0), Obj("passive" :> FALSE)>>,
      <<Part.trackX, "mousedown", SbFn("onTrackX", 0), Undef>>,
      <<Part.trackY, "mousedown", SbFn("onTrackY", 0), Undef>>,
      <<Part.trackX, "touchstart", SbFn("onTrackX", 0), Obj("passive" :> FALSE)>>,
      <<Part.trackY, "touchstart", SbFn("onTrackY", 0), Obj("passive" :> FALSE)>>>>

\* The listener L.listenResize adds and the two observers of _bind.
BoundDirectly(h) ==
    {Listener(Window, "resize", SbFn("onResize", 0), Obj("passive" :> TRUE)),
     Listener(h, "ResizeObserver", SbFn("ro", 0), Undef),
     Listener(Body, "MutationObserver", SbFn("mo", 0), Undef)}

\* The document subscriptions of the drag whose closures are move and up of n.
DragSubs(n) ==
    <<<<Document, "mousemove", SbFn("move", n), Undef>>,
      <<Document, "mouseup", SbFn("up", n), Undef>>,
      <<Document, "touchmove", SbFn("move", n), Obj("passive" :> FALSE)>>,
      <<Document, "touchend", SbFn("up", n), Undef>>>>

\* update(), for a host whose content overflows it in x (ox) and in y (oy);
\* after destroy() it throws at h.scrollWidth.
Sb_update(P, ox, oy) ==
    IF P.sb.host = NoElem THEN [P EXCEPT !.thrown = TRUE]
    ELSE [P EXCEPT !.sb.hasX = P.sb.axis \in {"xy", "x"} /\ ox,
                   !.sb.hasY = P.sb.axis \in {"xy", "y"} /\ oy]

\* new LightScrollbar(hostEl, { axis }): _initDOM, _bind, update
Sb_construct(P, h, axis, ox, oy) ==
    LET P1 == OnEach(P, BoundWithOn(h))
    IN Sb_update([P1 EXCEPT
                    !.host = @ \cup BoundDirectly(h),
                    !.sb = [made |-> TRUE, host |-> h, axis |-> axis,
                            hasX |-> FALSE, hasY |-> FALSE,
                            cleanup |-> <<"unresize", "unro", "scroll", "grips", "tracks",
                                          "unmo">>,
                            docDragHandlers |-> 0, dragging |-> ""]],
                 ox, oy)

\* _dragStart(e, axis), called by a mousedown or touchstart on a grip
Sb_dragStart(P, axis) ==
    LET used == {l.fn.n : l \in P.host}
        n == CHOOSE k \in 1..(Cardinality(used) + 1) : k \notin used
    IN [OnEach(P, DragSubs(n)) EXCEPT !.sb.dragging = axis, !.sb.docDragHandlers = n]

RECURSIVE Sb_up(_, _)
\* The host dispatches mouseup or touchend at the document: the closures
\* `up` registered for it run, those in `ns`; after destroy() each throws at
\* this.host.classList, having removed its subscriptions.
Sb_up(P, ns) ==
    IF ns = <<>> THEN P
    ELSE Sb_up([OffEach(P, DragSubs(Head(ns)))
                   EXCEPT !.sb.dragging = "", !.sb.docDragHandlers = 0,
                          !.thrown = @ \/ P.sb.host = NoElem],
               Tail(ns))

\* destroy()
Sb_destroy(P) ==
    LET P1 == IF P.sb.docDragHandlers # 0
              THEN [OffEach(P, DragSubs(P.sb.docDragHandlers)) EXCEPT !.sb.docDragHandlers = 0]
              ELSE P
        P2 == OffEach(P1, BoundWithOn(P.sb.host))
    IN IF P.sb.host = NoElem THEN P
       ELSE [P2 EXCEPT !.host = @ \ BoundDirectly(P.sb.host),
                       !.sb.cleanup = <<>>,
                       !.sb.host = NoElem]

\* A scrollbar is made for an element, its content changes size, its grips
\* are pressed (with the mouse, with a finger, again before a release), the
\* release reaches the document, the scrollbar is destroyed, once and again.
NextScrollbar ==
    LET P == Page @@ [thrown |-> FALSE]
        Do(Q, op, a) == PageStep(Q, [op |-> op, a |-> a, thrown |-> Q.thrown], op)
    IN \/ \E h \in Elems, axis \in {"xy", "x", "y"}, ox, oy \in BOOLEAN :
             ~sb.made /\ Do(Sb_construct(P, h, axis, ox, oy), "construct", "")
       \/ \E ox, oy \in BOOLEAN : sb.made /\ Do(Sb_update(P, ox, oy), "update", "")
       \/ \E axis \in {"x", "y"}, type \in {"mousedown", "touchstart"} :
             /\ \E l \in host :
                   /\ l.target = (IF axis = "x" THEN Part.gripX ELSE Part.gripY)
                   /\ l.type = type
             /\ Cardinality({l.fn.n : l \in host} \ {0}) < MaxDrags
             /\ Do(Sb_dragStart(P, axis), "dragStart", type)
       \/ \E type \in {"mouseup", "touchend"} :
             /\ \E l \in host : l.target = Document /\ l.type = type
             /\ Do(Sb_up(P, SeqOfSet({l.fn.n : l \in {m \in host : m.target = Document
                                                                   /\ m.type = type}})),
                   "up", type)
       \/ sb.made /\ Do(Sb_destroy(P), "destroy", "")

SpecScrollbar == InitLib /\ [][NextScrollbar]_vars

\* C40. After LightScrollbar.destroy() has returned, no listener and no
\* observer the scrollbar registered is registered any more, the document
\* listeners of the drags started and not finished included, and L holds no
\* record of a subscription of it; a second destroy() changes nothing.
C40_DestroyRemovesAll ==
    [][io'.op = "destroy" =>
         /\ host' = {}
         /\ events' = <<>>
         /\ sb.host = NoElem => (host' = host /\ events' = events /\ sb' = sb)]_vars

====
